---- MODULE Spec2Model ----
(***************************************************************************)
(* The landing-zone cost calculator of scripts/pre-deployment/             *)
(* cost-calculator.py: an OrganizationProfile is turned by eight service   *)
(* calculators into ServiceCost entries, which generate_cost_report        *)
(* aggregates and assembles into a report.                                 *)
(*                                                                         *)
(* Numbers.  The code computes in binary floating point.  The model        *)
(* computes the same expressions, in the same order, in exact decimal      *)
(* fixed point with nine fractional digits: a number is a record           *)
(* [d |-> whole part (floor), n |-> billionths in 0 .. 10^9 - 1].  Every   *)
(* quantity the calculators produce from the inputs drawn here is an exact *)
(* multiple of 10^-9, so no digit is lost; what the model does not show is *)
(* the rounding error of the floating-point operations (relative 1e-16).   *)
(* Prices are written in thousandths of a dollar, percentages and ratios   *)
(* in hundredths.                                                          *)
(***************************************************************************)
EXTENDS Integers, Sequences, FiniteSets, TLC

\* ------------------------------------------------------------ fixed point

Nano == 1000 * 1000 * 1000

NumInt(i) == [d |-> i, n |-> 0]

NumZero == NumInt(0)

NumAdd(a, b) ==
    LET s == a.n + b.n
    IN  IF s >= Nano THEN [d |-> a.d + b.d + 1, n |-> s - Nano]
                     ELSE [d |-> a.d + b.d, n |-> s]

NumNeg(a) ==
    IF a.n = 0 THEN [d |-> 0 - a.d, n |-> 0]
               ELSE [d |-> 0 - a.d - 1, n |-> Nano - a.n]

NumSub(a, b) == NumAdd(a, NumNeg(b))

NumLess(a, b) == a.d < b.d \/ (a.d = b.d /\ a.n < b.n)

NumLeq(a, b) == a = b \/ NumLess(a, b)

RECURSIVE NumTimesNat(_, _)
\* a * k for a natural k, by doubling
NumTimesNat(a, k) ==
    IF k = 0 THEN NumZero
    ELSE LET h == NumTimesNat(a, k \div 2)
             dbl == NumAdd(h, h)
         IN  IF k % 2 = 1 THEN NumAdd(dbl, a) ELSE dbl

NumTimesInt(a, k) ==
    IF k >= 0 THEN NumTimesNat(a, k) ELSE NumNeg(NumTimesNat(a, 0 - k))

\* a / k for k a power of ten up to 10^9 (exact when a is a multiple of
\* k * 10^-9, as every operand here is)
NumDivPow10(a, k) ==
    [d |-> a.d \div k, n |-> (a.d % k) * (Nano \div k) + (a.n \div k)]

\* a * (p / q), q a power of ten: the product of a and a decimal constant
NumMulFrac(a, p, q) == NumDivPow10(NumTimesInt(a, p), q)

\* a * price, the price in thousandths
NumMulMilli(a, milli) == NumMulFrac(a, milli, 1000)

\* the price itself as a number
Price(milli) == NumMulMilli(NumInt(1), milli)

\* ---------------------------------------------------------------- pricing
\* AWSPricing, in thousandths of a dollar

CONTROL_TOWER_BASE == 89100
GUARDDUTY_BASE_PER_ACCOUNT == 15600
GUARDDUTY_CLOUDTRAIL_PER_100K_EVENTS == 100
GUARDDUTY_DNS_PER_GB == 500
CONFIG_ITEM_PRICE == 3
CONFIG_RULE_EVALUATION_PRICE == 1
CONFIG_TYPICAL_PER_ACCOUNT == 23400
TGW_ATTACHMENT_HOURLY == 50
TGW_DATA_PROCESSING_PER_GB == 20
CLOUDTRAIL_DATA_EVENTS_PER_100K == 100
CLOUDTRAIL_INSIGHTS_PER_100K == 350
CLOUDTRAIL_TYPICAL_MONTHLY == 67500
CLOUDWATCH_LOG_INGESTION_PER_GB == 500
CLOUDWATCH_LOG_STORAGE_PER_GB_MONTH == 30
CLOUDWATCH_TYPICAL_PER_ACCOUNT == 7890
SECURITY_HUB_FINDING_INGESTION_PER_100K == 300
SECURITY_HUB_COMPLIANCE_CHECKS_PER_100K == 100
SYSTEMS_MANAGER_PARAMETER_STORE_STANDARD == 50
SYSTEMS_MANAGER_AUTOMATION_PER_STEP == 2
AWS_BACKUP_STORAGE_PER_GB_MONTH == 50
AWS_BACKUP_CROSS_REGION_COPY_PER_GB == 20

\* AWSPricing(): the table a calculator holds
AWSPricing ==
    [CONTROL_TOWER_BASE |-> CONTROL_TOWER_BASE,
     GUARDDUTY_BASE_PER_ACCOUNT |-> GUARDDUTY_BASE_PER_ACCOUNT,
     GUARDDUTY_CLOUDTRAIL_PER_100K_EVENTS |-> GUARDDUTY_CLOUDTRAIL_PER_100K_EVENTS,
     GUARDDUTY_DNS_PER_GB |-> GUARDDUTY_DNS_PER_GB,
     CONFIG_ITEM_PRICE |-> CONFIG_ITEM_PRICE,
     CONFIG_RULE_EVALUATION_PRICE |-> CONFIG_RULE_EVALUATION_PRICE,
     CONFIG_TYPICAL_PER_ACCOUNT |-> CONFIG_TYPICAL_PER_ACCOUNT,
     TGW_ATTACHMENT_HOURLY |-> TGW_ATTACHMENT_HOURLY,
     TGW_DATA_PROCESSING_PER_GB |-> TGW_DATA_PROCESSING_PER_GB,
     CLOUDTRAIL_DATA_EVENTS_PER_100K |-> CLOUDTRAIL_DATA_EVENTS_PER_100K,
     CLOUDTRAIL_INSIGHTS_PER_100K |-> CLOUDTRAIL_INSIGHTS_PER_100K,
     CLOUDTRAIL_TYPICAL_MONTHLY |-> CLOUDTRAIL_TYPICAL_MONTHLY,
     CLOUDWATCH_LOG_INGESTION_PER_GB |-> CLOUDWATCH_LOG_INGESTION_PER_GB,
     CLOUDWATCH_LOG_STORAGE_PER_GB_MONTH |-> CLOUDWATCH_LOG_STORAGE_PER_GB_MONTH,
     CLOUDWATCH_TYPICAL_PER_ACCOUNT |-> CLOUDWATCH_TYPICAL_PER_ACCOUNT,
     SECURITY_HUB_FINDING_INGESTION_PER_100K |-> SECURITY_HUB_FINDING_INGESTION_PER_100K,
     SECURITY_HUB_COMPLIANCE_CHECKS_PER_100K |-> SECURITY_HUB_COMPLIANCE_CHECKS_PER_100K,
     SYSTEMS_MANAGER_PARAMETER_STORE_STANDARD |-> SYSTEMS_MANAGER_PARAMETER_STORE_STANDARD,
     SYSTEMS_MANAGER_AUTOMATION_PER_STEP |-> SYSTEMS_MANAGER_AUTOMATION_PER_STEP,
     AWS_BACKUP_STORAGE_PER_GB_MONTH |-> AWS_BACKUP_STORAGE_PER_GB_MONTH,
     AWS_BACKUP_CROSS_REGION_COPY_PER_GB |-> AWS_BACKUP_CROSS_REGION_COPY_PER_GB]

\* ---------------------------------------------------------------- profile

\* bounds of the inputs
MaxSmallAccounts == 2
MaxRegions == 3
MaxFrameworks == 2
MaxDataSteps == 1

\* generate_cost_report is called at most this often on one calculator
MaxCalls == 2

\* at most this many checks of a health check find other than PASS
MaxUnhealthy == 1

\* list_accounts answers with at most this many accounts
MaxListedAccounts == 3

\* the defaults of the command line
DefaultAccounts == 10
DefaultEmployees == 500
DefaultDataGb == 1000
DefaultDevRatioPct == 30

RegionList == <<"us-east-1", "eu-west-1", "ap-southeast-1", "us-west-2", "eu-central-1">>
FrameworkList == <<"sox", "pci-dss", "hipaa", "iso27001">>

\* accounts_count: any integer the configuration holds (no check is made)
AccountsValues == (-1 .. MaxSmallAccounts) \cup {DefaultAccounts, 20, 21, 50, 60}

EmployeesValues == {0, 1, DefaultEmployees}

\* regions: a list, possibly empty, possibly with a repeated identifier
RegionsValues ==
    {SubSeq(RegionList, 1, k) : k \in 0 .. MaxRegions}
        \cup {<<"us-east-1", "us-east-1">>}

ComplianceValues ==
    {SubSeq(FrameworkList, 1, k) : k \in 0 .. MaxFrameworks}
        \cup {<<"pci-dss", "pci-dss">>}

DataGbValues == {k * DefaultDataGb : k \in 0 .. MaxDataSteps} \cup {1}

\* development_accounts_ratio in hundredths; a configuration file may hold
\* any number
DevRatioPctValues == {-50, 0, DefaultDevRatioPct, 100, 150}

OrganizationProfile ==
    [name : {"Enterprise Organization"},
     accounts_count : AccountsValues,
     employees : EmployeesValues,
     regions : RegionsValues,
     compliance_requirements : ComplianceValues,
     expected_data_gb_monthly : DataGbValues,
     business_hours_only : {FALSE},
     development_accounts_ratio : DevRatioPctValues]

\* the invariants the specification states for a profile
ValidProfile(p) ==
    /\ p.accounts_count >= 1
    /\ p.employees >= 1
    /\ p.development_accounts_ratio >= 0
    /\ p.development_accounts_ratio <= 100
    /\ Len(p.regions) >= 1
    /\ p.expected_data_gb_monthly >= 0

\* ------------------------------------------------------------ calculators

\* a number: d + n / 10^9
Num == [d : Int, n : 0 .. Nano - 1]

\* A ServiceCost without its cost_drivers (explanatory strings no total
\* reads); optimization_potential in hundredths.
ServiceCost ==
    [service_name : STRING,
     monthly_cost : Num,
     annual_cost : Num,
     optimization_potential : 0 .. 100,
     cost_tier : {"standard", "enterprise", "premium"}]

\* int(x / k): Python's int() truncates towards zero
TruncDiv(x, k) == IF x >= 0 THEN x \div k ELSE 0 - ((0 - x) \div k)

\* calculate_control_tower_costs with the base price charged per account
calculate_control_tower_costs_per_account(p) ==
    LET monthly_cost == NumMulMilli(NumInt(p.accounts_count), CONTROL_TOWER_BASE)
        annual_cost == NumTimesNat(monthly_cost, 12)
    IN  [service_name |-> "AWS Control Tower",
         monthly_cost |-> monthly_cost,
         annual_cost |-> annual_cost,
         optimization_potential |-> 0,
         cost_tier |-> "enterprise"]

calculate_control_tower_costs(p) ==
    LET monthly_cost == Price(CONTROL_TOWER_BASE)
        annual_cost == NumTimesNat(monthly_cost, 12)
    IN  [service_name |-> "AWS Control Tower",
         monthly_cost |-> monthly_cost,
         annual_cost |-> annual_cost,
         optimization_potential |-> 0,
         cost_tier |-> "enterprise"]

calculate_guardduty_costs(p) ==
    LET base_monthly ==
            NumMulMilli(NumInt(p.accounts_count), GUARDDUTY_BASE_PER_ACCOUNT)
        events_per_month == p.expected_data_gb_monthly * 100
        cloudtrail_events_cost ==
            NumMulMilli(NumDivPow10(NumInt(events_per_month), 100000),
                        GUARDDUTY_CLOUDTRAIL_PER_100K_EVENTS)
        dns_logs_cost ==
            NumMulMilli(NumInt(p.expected_data_gb_monthly), GUARDDUTY_DNS_PER_GB)
        monthly_cost ==
            NumAdd(NumAdd(base_monthly, cloudtrail_events_cost), dns_logs_cost)
        annual_cost == NumTimesNat(monthly_cost, 12)
    IN  [service_name |-> "Amazon GuardDuty",
         monthly_cost |-> monthly_cost,
         annual_cost |-> annual_cost,
         optimization_potential |-> 20,
         cost_tier |-> "premium"]

calculate_config_costs(p) ==
    LET config_items_per_account == 500
        total_config_items == config_items_per_account * p.accounts_count
        rule_evaluations_per_month == p.accounts_count * 50 * 4 * 30
        monthly_cost ==
            NumAdd(NumMulMilli(NumInt(total_config_items), CONFIG_ITEM_PRICE),
                   NumMulMilli(NumInt(rule_evaluations_per_month),
                               CONFIG_RULE_EVALUATION_PRICE))
        annual_cost == NumTimesNat(monthly_cost, 12)
    IN  [service_name |-> "AWS Config",
         monthly_cost |-> monthly_cost,
         annual_cost |-> annual_cost,
         optimization_potential |-> 25,
         cost_tier |-> "standard"]

\* calculate_transit_gateway_costs with the attachments of one region only
calculate_transit_gateway_costs_one_region(p) ==
    LET total_attachments == p.accounts_count * 2
        attachment_cost ==
            NumTimesNat(NumMulMilli(NumInt(total_attachments),
                                    TGW_ATTACHMENT_HOURLY), 24 * 30)
        tgw_data_gb == NumMulFrac(NumInt(p.expected_data_gb_monthly), 7, 10)
        data_processing_cost ==
            NumMulMilli(tgw_data_gb, TGW_DATA_PROCESSING_PER_GB)
        monthly_cost == NumAdd(attachment_cost, data_processing_cost)
    IN  [service_name |-> "AWS Transit Gateway",
         monthly_cost |-> monthly_cost,
         annual_cost |-> NumTimesNat(monthly_cost, 12),
         optimization_potential |-> 30,
         cost_tier |-> "standard"]

\* calculate_transit_gateway_costs with annual_cost taken from the
\* attachment cost alone
calculate_transit_gateway_costs_annual_of_attachments(p) ==
    LET total_attachments == (p.accounts_count * 2) * Len(p.regions)
        attachment_cost ==
            NumTimesNat(NumMulMilli(NumInt(total_attachments),
                                    TGW_ATTACHMENT_HOURLY), 24 * 30)
        tgw_data_gb == NumMulFrac(NumInt(p.expected_data_gb_monthly), 7, 10)
        data_processing_cost ==
            NumMulMilli(tgw_data_gb, TGW_DATA_PROCESSING_PER_GB)
    IN  [service_name |-> "AWS Transit Gateway",
         monthly_cost |-> NumAdd(attachment_cost, data_processing_cost),
         annual_cost |-> NumTimesNat(attachment_cost, 12),
         optimization_potential |-> 30,
         cost_tier |-> "standard"]

calculate_transit_gateway_costs(p) ==
    LET attachments_per_account == 2
        region_multiplier == Len(p.regions)
        total_attachments ==
            (p.accounts_count * attachments_per_account) * region_multiplier
        hours_per_month == 24 * 30
        attachment_cost ==
            NumTimesNat(NumMulMilli(NumInt(total_attachments),
                                    TGW_ATTACHMENT_HOURLY), hours_per_month)
        tgw_data_gb == NumMulFrac(NumInt(p.expected_data_gb_monthly), 7, 10)
        data_processing_cost ==
            NumMulMilli(tgw_data_gb, TGW_DATA_PROCESSING_PER_GB)
        monthly_cost == NumAdd(attachment_cost, data_processing_cost)
        annual_cost == NumTimesNat(monthly_cost, 12)
    IN  [service_name |-> "AWS Transit Gateway",
         monthly_cost |-> monthly_cost,
         annual_cost |-> annual_cost,
         optimization_potential |-> 30,
         cost_tier |-> "standard"]

calculate_cloudtrail_costs(p) ==
    LET base_cost == Price(CLOUDTRAIL_TYPICAL_MONTHLY)
        data_events_per_month == p.expected_data_gb_monthly * 50
        data_events_cost ==
            NumMulMilli(NumDivPow10(NumInt(data_events_per_month), 100000),
                        CLOUDTRAIL_DATA_EVENTS_PER_100K)
        insights_cost ==
            NumMulFrac(
                NumMulMilli(NumDivPow10(NumInt(data_events_per_month), 100000),
                            CLOUDTRAIL_INSIGHTS_PER_100K), 1, 10)
        monthly_cost == NumAdd(NumAdd(base_cost, data_events_cost), insights_cost)
        annual_cost == NumTimesNat(monthly_cost, 12)
    IN  [service_name |-> "AWS CloudTrail",
         monthly_cost |-> monthly_cost,
         annual_cost |-> annual_cost,
         optimization_potential |-> 15,
         cost_tier |-> "standard"]

calculate_cloudwatch_costs(p) ==
    LET base_cost ==
            NumMulMilli(NumInt(p.accounts_count), CLOUDWATCH_TYPICAL_PER_ACCOUNT)
        log_ingestion_gb == NumMulFrac(NumInt(p.expected_data_gb_monthly), 3, 10)
        ingestion_cost ==
            NumMulMilli(log_ingestion_gb, CLOUDWATCH_LOG_INGESTION_PER_GB)
        avg_retention_months == 6
        storage_cost ==
            NumMulMilli(NumTimesNat(log_ingestion_gb, avg_retention_months),
                        CLOUDWATCH_LOG_STORAGE_PER_GB_MONTH)
        monthly_cost == NumAdd(NumAdd(base_cost, ingestion_cost), storage_cost)
        annual_cost == NumTimesNat(monthly_cost, 12)
    IN  [service_name |-> "Amazon CloudWatch",
         monthly_cost |-> monthly_cost,
         annual_cost |-> annual_cost,
         optimization_potential |-> 40,
         cost_tier |-> "standard"]

\* calculate_security_hub_costs with an empty compliance_requirements
\* counted as one framework
calculate_security_hub_costs_one_framework_least(p) ==
    LET findings_per_month == p.accounts_count * 10000
        ingestion_cost ==
            NumMulMilli(NumDivPow10(NumInt(findings_per_month), 100000),
                        SECURITY_HUB_FINDING_INGESTION_PER_100K)
        frameworks == IF Len(p.compliance_requirements) = 0 THEN 1
                      ELSE Len(p.compliance_requirements)
        compliance_checks_per_month == (p.accounts_count * frameworks) * 1000
        compliance_cost ==
            NumMulMilli(NumDivPow10(NumInt(compliance_checks_per_month), 100000),
                        SECURITY_HUB_COMPLIANCE_CHECKS_PER_100K)
        monthly_cost == NumAdd(ingestion_cost, compliance_cost)
    IN  [service_name |-> "AWS Security Hub",
         monthly_cost |-> monthly_cost,
         annual_cost |-> NumTimesNat(monthly_cost, 12),
         optimization_potential |-> 10,
         cost_tier |-> "premium"]

calculate_security_hub_costs(p) ==
    LET findings_per_month == p.accounts_count * 10000
        ingestion_cost ==
            NumMulMilli(NumDivPow10(NumInt(findings_per_month), 100000),
                        SECURITY_HUB_FINDING_INGESTION_PER_100K)
        compliance_checks_per_month ==
            (p.accounts_count * Len(p.compliance_requirements)) * 1000
        compliance_cost ==
            NumMulMilli(NumDivPow10(NumInt(compliance_checks_per_month), 100000),
                        SECURITY_HUB_COMPLIANCE_CHECKS_PER_100K)
        monthly_cost == NumAdd(ingestion_cost, compliance_cost)
        annual_cost == NumTimesNat(monthly_cost, 12)
    IN  [service_name |-> "AWS Security Hub",
         monthly_cost |-> monthly_cost,
         annual_cost |-> annual_cost,
         optimization_potential |-> 10,
         cost_tier |-> "premium"]

\* prod_accounts = int(accounts_count * (1 - development_accounts_ratio))
BackupProdAccounts(p) ==
    TruncDiv(p.accounts_count * (100 - p.development_accounts_ratio), 100)

\* BackupDevAccounts with the difference taken the other way round
BackupDevAccountsReversed(p) == BackupProdAccounts(p) - p.accounts_count

\* dev_accounts = accounts_count - prod_accounts
BackupDevAccounts(p) == p.accounts_count - BackupProdAccounts(p)

\* calculate_backup_costs with the storage of the development accounts
\* left out
calculate_backup_costs_prod_only(p) ==
    LET backup_storage_gb == BackupProdAccounts(p) * 100
        storage_cost ==
            NumMulMilli(NumInt(backup_storage_gb), AWS_BACKUP_STORAGE_PER_GB_MONTH)
        cross_region_gb == NumMulFrac(NumInt(backup_storage_gb), 5, 10)
        cross_region_cost ==
            NumMulMilli(cross_region_gb, AWS_BACKUP_CROSS_REGION_COPY_PER_GB)
        monthly_cost == NumAdd(storage_cost, cross_region_cost)
    IN  [service_name |-> "AWS Backup",
         monthly_cost |-> monthly_cost,
         annual_cost |-> NumTimesNat(monthly_cost, 12),
         optimization_potential |-> 25,
         cost_tier |-> "standard"]

calculate_backup_costs(p) ==
    LET prod_accounts == BackupProdAccounts(p)
        dev_accounts == BackupDevAccounts(p)
        backup_storage_gb == (prod_accounts * 100) + (dev_accounts * 30)
        storage_cost ==
            NumMulMilli(NumInt(backup_storage_gb), AWS_BACKUP_STORAGE_PER_GB_MONTH)
        cross_region_gb == NumMulFrac(NumInt(backup_storage_gb), 5, 10)
        cross_region_cost ==
            NumMulMilli(cross_region_gb, AWS_BACKUP_CROSS_REGION_COPY_PER_GB)
        monthly_cost == NumAdd(storage_cost, cross_region_cost)
        annual_cost == NumTimesNat(monthly_cost, 12)
    IN  [service_name |-> "AWS Backup",
         monthly_cost |-> monthly_cost,
         annual_cost |-> annual_cost,
         optimization_potential |-> 25,
         cost_tier |-> "standard"]

\* ------------------------------------------------------------- aggregation

RECURSIVE SumMonthlyFromSecond(_)
\* SumMonthly with the first service left out of the sum
SumMonthlyFromSecond(svcs) ==
    IF Len(svcs) <= 1 THEN NumZero
    ELSE NumAdd(SumMonthlyFromSecond(SubSeq(svcs, 1, Len(svcs) - 1)),
                svcs[Len(svcs)].monthly_cost)

RECURSIVE SumMonthly(_)
\* sum(service.monthly_cost for service in services)
SumMonthly(svcs) ==
    IF svcs = <<>> THEN NumZero
    ELSE NumAdd(SumMonthly(SubSeq(svcs, 1, Len(svcs) - 1)),
                svcs[Len(svcs)].monthly_cost)

RECURSIVE SumAnnual(_)
\* sum(service.annual_cost for service in services)
SumAnnual(svcs) ==
    IF svcs = <<>> THEN NumZero
    ELSE NumAdd(SumAnnual(SubSeq(svcs, 1, Len(svcs) - 1)),
                svcs[Len(svcs)].annual_cost)

\* OptimizedCost with no discount applied
OptimizedCostUndiscounted(service) == service.monthly_cost

\* OptimizedCost with one factor for all services, a quarter off
OptimizedCostGlobalFactor(service) ==
    NumMulFrac(service.monthly_cost, 100 - 25, 100)

\* service.monthly_cost * (1 - service.optimization_potential)
OptimizedCost(service) ==
    NumMulFrac(service.monthly_cost, 100 - service.optimization_potential, 100)

RECURSIVE SumOptimized(_)
SumOptimized(svcs) ==
    IF svcs = <<>> THEN NumZero
    ELSE NumAdd(SumOptimized(SubSeq(svcs, 1, Len(svcs) - 1)),
                OptimizedCost(svcs[Len(svcs)]))

\* the totals of generate_cost_report, before the per-employee divisions
ComputeTotals(svcs) ==
    LET total_monthly == SumMonthly(svcs)
        total_annual == SumAnnual(svcs)
        optimized_monthly == SumOptimized(svcs)
        optimized_annual == NumTimesNat(optimized_monthly, 12)
    IN  [total_monthly |-> total_monthly,
         total_annual |-> total_annual,
         optimized_monthly |-> optimized_monthly,
         optimized_annual |-> optimized_annual,
         potential_savings_monthly |-> NumSub(total_monthly, optimized_monthly),
         potential_savings_annual |-> NumSub(total_annual, optimized_annual)]

\* ---------------------------------------------------------------- rounding
\* round(x, 2): to the nearest hundredth, a tie to the even hundredth (the
\* rule Python applies to the value it holds)

CentNano == 10 * 1000 * 1000

CentsToNum(c) == [d |-> c \div 100, n |-> (c % 100) * CentNano]

NumRound2(a) ==
    LET q == a.n \div CentNano
        r == a.n % CentNano
        half == CentNano \div 2
        up == r > half \/ (r = half /\ q % 2 = 1)
    IN  CentsToNum(a.d * 100 + q + (IF up THEN 1 ELSE 0))

\* round(a / k, 2) for an integer k # 0
NumDivIntRound2(a, k) ==
    LET x == IF k < 0 THEN NumNeg(a) ELSE a
        m == IF k < 0 THEN 0 - k ELSE k
        c == x.d * 100 + (x.n \div CentNano)
        rem == x.n % CentNano
        q == c \div m
        r == c % m
        twice == 2 * r + ((2 * rem) \div CentNano)
        frac == (2 * rem) % CentNano
        up == \/ twice > m
              \/ (twice = m /\ frac > 0)
              \/ (twice = m /\ frac = 0 /\ q % 2 = 1)
    IN  CentsToNum(q + (IF up THEN 1 ELSE 0))

\* ----------------------------------------------- recommendations and risks

\* the two entries every list starts with
HighImpactRecommendations(total_annual) ==
    <<[priority |-> "high",
       category |-> "cost_optimization",
       title |-> "Implement Transit Gateway Reserved Instances",
       estimated_savings_annual |-> NumMulFrac(total_annual, 15, 100),
       implementation_effort |-> "low"],
      [priority |-> "high",
       category |-> "log_optimization",
       title |-> "Configure CloudWatch Logs retention policies",
       estimated_savings_annual |-> NumMulFrac(total_annual, 12, 100),
       implementation_effort |-> "medium"]>>

GovernanceRecommendation(total_annual) ==
    [priority |-> "medium",
     category |-> "governance",
     title |-> "Implement account-level budget controls",
     estimated_savings_annual |-> NumMulFrac(total_annual, 8, 100),
     implementation_effort |-> "high"]

\* ComplianceRecommendation with the savings of the first rule, 0.15
ComplianceRecommendationOfFifteen(total_annual) ==
    [priority |-> "medium",
     category |-> "compliance",
     title |-> "Optimize PCI DSS scope",
     estimated_savings_annual |-> NumMulFrac(total_annual, 15, 100),
     implementation_effort |-> "high"]

ComplianceRecommendation(total_annual) ==
    [priority |-> "medium",
     category |-> "compliance",
     title |-> "Optimize PCI DSS scope",
     estimated_savings_annual |-> NumMulFrac(total_annual, 5, 100),
     implementation_effort |-> "high"]

\* BudgetControlsApply with the boundary included
BudgetControlsApplyFromTwenty(p) == p.accounts_count >= 20

\* if self.org_profile.accounts_count > 20
BudgetControlsApply(p) == p.accounts_count > 20

\* PciScopeApplies looking at the first requirement only
PciScopeAppliesToFirst(p) ==
    /\ Len(p.compliance_requirements) >= 1
    /\ p.compliance_requirements[1] = "pci-dss"

\* if "pci-dss" in self.org_profile.compliance_requirements
PciScopeApplies(p) ==
    \E i \in 1 .. Len(p.compliance_requirements) :
        p.compliance_requirements[i] = "pci-dss"

\* _generate_recommendations with the log retention entry put first
_generate_recommendations_log_first(p, total_annual) ==
    LET high == HighImpactRecommendations(total_annual)
    IN  <<high[2], high[1]>>
            \o (IF BudgetControlsApply(p)
                THEN <<GovernanceRecommendation(total_annual)>> ELSE <<>>)
            \o (IF PciScopeApplies(p)
                THEN <<ComplianceRecommendation(total_annual)>> ELSE <<>>)

\* _generate_recommendations with the list sorted by priority, "medium"
\* before "high" as the words sort
_generate_recommendations_sorted_by_priority(p, total_annual) ==
    (IF BudgetControlsApply(p)
     THEN <<GovernanceRecommendation(total_annual)>> ELSE <<>>)
        \o (IF PciScopeApplies(p)
            THEN <<ComplianceRecommendation(total_annual)>> ELSE <<>>)
        \o HighImpactRecommendations(total_annual)

_generate_recommendations(p, total_annual) ==
    LET high == HighImpactRecommendations(total_annual)
        governance ==
            IF BudgetControlsApply(p)
            THEN <<GovernanceRecommendation(total_annual)>>
            ELSE <<>>
        compliance ==
            IF PciScopeApplies(p)
            THEN <<ComplianceRecommendation(total_annual)>>
            ELSE <<>>
    IN  high \o governance \o compliance

\* RiskLevel with "high" kept for all three factors together
RiskLevelHighAtThree(risk_factors) ==
    IF Len(risk_factors) >= 3 THEN "high"
    ELSE IF risk_factors # <<>> THEN "medium" ELSE "low"

\* "high" if len(risk_factors) >= 2 else "medium" if risk_factors else "low"
RiskLevel(risk_factors) ==
    IF Len(risk_factors) >= 2 THEN "high"
    ELSE IF risk_factors # <<>> THEN "medium" ELSE "low"

\* _generate_risk_analysis with two regions already counted as multi-region
_generate_risk_analysis_from_two_regions(p, monthly_cost) ==
    LET spend == IF NumLess(NumInt(2000), monthly_cost)
                 THEN <<"high_monthly_spend">> ELSE <<>>
        multi == IF Len(p.regions) >= 2
                 THEN <<"multi_region_complexity">> ELSE <<>>
        sprawl == IF p.accounts_count > 50
                  THEN <<"account_sprawl">> ELSE <<>>
        risk_factors == spend \o multi \o sprawl
    IN  [risk_level |-> RiskLevel(risk_factors),
         risk_factors |-> risk_factors]

\* _generate_risk_analysis with the list of factors left out of the mapping
\* when there is none
_generate_risk_analysis_omitting_empty(p, monthly_cost) ==
    LET spend == IF NumLess(NumInt(2000), monthly_cost)
                 THEN <<"high_monthly_spend">> ELSE <<>>
        multi == IF Len(p.regions) > 2
                 THEN <<"multi_region_complexity">> ELSE <<>>
        sprawl == IF p.accounts_count > 50
                  THEN <<"account_sprawl">> ELSE <<>>
        risk_factors == spend \o multi \o sprawl
    IN  IF risk_factors = <<>>
        THEN [risk_level |-> "low"]
        ELSE [risk_level |-> RiskLevel(risk_factors),
              risk_factors |-> risk_factors]

_generate_risk_analysis(p, monthly_cost) ==
    LET spend == IF NumLess(NumInt(2000), monthly_cost)
                 THEN <<"high_monthly_spend">> ELSE <<>>
        multi == IF Len(p.regions) > 2
                 THEN <<"multi_region_complexity">> ELSE <<>>
        sprawl == IF p.accounts_count > 50
                  THEN <<"account_sprawl">> ELSE <<>>
        risk_factors == spend \o multi \o sprawl
    IN  [risk_level |-> RiskLevel(risk_factors),
         risk_factors |-> risk_factors]

\* ------------------------------------------------------------------ report

\* one entry of cost_breakdown.services (percentage_of_total is
\* monthly_cost / total_monthly: its value is left out, its division is the
\* fault condition of BuildReport)
ServiceEntry(service) ==
    [name |-> service.service_name,
     monthly_cost |-> NumRound2(service.monthly_cost),
     annual_cost |-> NumRound2(service.annual_cost),
     optimization_potential_pct |-> service.optimization_potential,
     cost_tier |-> service.cost_tier]

\* ReportServices with the services under one dollar a month left out
ReportServicesAboveOneDollar(svcs) ==
    LET shown == SelectSeq(svcs, LAMBDA sv : ~NumLess(sv.monthly_cost, NumInt(1)))
    IN  [i \in 1 .. Len(shown) |-> ServiceEntry(shown[i])]

\* cost_breakdown.services: one entry per element of `services`, in order
ReportServices(svcs) == [i \in 1 .. Len(svcs) |-> ServiceEntry(svcs[i])]

\* ReportDivides with the cost per account taken per development account
ReportDividesByDevAccounts(p, t) ==
    \/ t.total_monthly = NumZero
    \/ t.total_annual = NumZero
    \/ BackupDevAccounts(p) = 0

\* the divisions of the returned mapping, in the order they are evaluated
ReportDivides(p, t) ==
    \/ t.total_monthly = NumZero
    \/ t.total_annual = NumZero
    \/ p.accounts_count = 0

\* BusinessMetrics with the annual cost per account taken from the monthly
\* total
BusinessMetricsAnnualFromMonthly(p, t) ==
    [cost_per_employee |->
        [monthly |-> NumDivIntRound2(t.total_monthly, p.employees),
         annual |-> NumDivIntRound2(t.total_annual, p.employees)],
     cost_per_account |->
        [monthly |-> NumDivIntRound2(t.total_monthly, p.accounts_count),
         annual |-> NumDivIntRound2(t.total_monthly, p.accounts_count)]]

\* "business_metrics" of the returned mapping
BusinessMetrics(p, t) ==
    [cost_per_employee |->
        [monthly |-> NumDivIntRound2(t.total_monthly, p.employees),
         annual |-> NumDivIntRound2(t.total_annual, p.employees)],
     cost_per_account |->
        [monthly |-> NumDivIntRound2(t.total_monthly, p.accounts_count),
         annual |-> NumDivIntRound2(t.total_annual, p.accounts_count)]]

BuildReport(p, svcs, t) ==
    [organization_profile |-> p,
     cost_analysis |->
        [timestamp |-> "2024-09-25T00:00:00Z",
         currency |-> "USD",
         region_basis |-> "us-east-1"],
     cost_breakdown |->
        [services |-> ReportServices(svcs),
         totals |->
            [monthly_cost |-> NumRound2(t.total_monthly),
             annual_cost |-> NumRound2(t.total_annual),
             optimized_monthly |-> NumRound2(t.optimized_monthly),
             optimized_annual |-> NumRound2(t.optimized_annual),
             potential_savings |->
                [monthly |-> NumRound2(t.potential_savings_monthly),
                 annual |-> NumRound2(t.potential_savings_annual)]]],
     business_metrics |-> BusinessMetrics(p, t),
     recommendations |-> _generate_recommendations(p, t.total_annual),
     risk_analysis |-> _generate_risk_analysis(p, t.total_monthly)]

\* ------------------------------------------------------------ health check
\* health-check.py: LandingZoneHealthCheck. A HealthCheckResult is kept as
\* its service and its status; message and details are text for the reader.

HealthCheckResult(service, status) == [service |-> service, status |-> status]

\* what the API calls of a check answer: "raises" is any exception of the
\* call, the other values the cases the check tells apart
OrganizationsAnswers ==
    [describe_organization : {"raises", "ALL", "CONSOLIDATED_BILLING"},
     policy_types : {"scp_enabled", "scp_absent", "malformed"}]

GuardDutyAnswers ==
    [list_detectors : {"raises", "none", "one"},
     get_detector : {"raises", "ENABLED", "DISABLED"},
     list_findings : {"raises", "answers"},
     finding_count : {0, 1}]

SecurityHubAnswers ==
    [describe_hub : {"raises", "not_found", "empty", "hub"},
     get_findings : {"raises", "answers"},
     failed_count : {0, 9, 10}]

\* a number of rules or jobs and how many of them are good
Tally == {<<0, 0>>, <<20, 20>>, <<20, 19>>, <<20, 18>>, <<20, 17>>}

ConfigAnswers ==
    [describe_configuration_recorders : {"raises", "none", "one"},
     describe_configuration_recorder_status :
        {"raises", "empty", "recording", "stopped"},
     describe_compliance_by_config_rule : {"raises", "answers"},
     rules : Tally]

CloudTrailAnswers ==
    [describe_trails : {"raises", "none", "account_trails", "organization_trail"},
     get_trail_status : {"raises", "logging", "stopped"}]

TransitGatewayAnswers ==
    [describe_transit_gateways : {"raises", "none", "available", "pending"},
     describe_transit_gateway_attachments : {"raises", "answers"}]

VpcEndpointsAnswers ==
    [describe_vpc_endpoints : {"raises", "none", "s3_gateway", "interface_only"}]

\* the cost of yesterday in whole dollars
CostsAnswers ==
    [get_cost_and_usage : {"raises", "empty", "answers"},
     daily_cost : {0, 166, 167},
     get_anomalies : {"raises", "none", "some"}]

BackupsAnswers ==
    [list_backup_jobs : {"raises", "none", "jobs"},
     jobs : Tally \ {<<0, 0>>}]

\* good / total * 100 >= percent, and 0 >= percent when there is nothing
RateAtLeast(tally, percent) ==
    IF tally[1] > 0 THEN tally[2] * 100 >= percent * tally[1] ELSE 0 >= percent

\* the status by rate: PASS from 95, WARN from 90, else FAIL
ByRate(tally) ==
    IF RateAtLeast(tally, 95) THEN "PASS"
    ELSE IF RateAtLeast(tally, 90) THEN "WARN" ELSE "FAIL"

\* What a check_* method does for the answers a: the results it appends to
\* self.results, and whether a call of it raised.
\* the try block ran to its end, or to a return, and appended these
Completed(appended) == [raised |-> FALSE, appended |-> appended]

\* the try block appended this one result
Found(service, status) == Completed(<<HealthCheckResult(service, status)>>)

\* a call raised after these were appended, and "except Exception" appended
\* a FAIL for the service
Caught(appended, service) ==
    [raised |-> TRUE,
     appended |-> Append(appended, HealthCheckResult(service, "FAIL"))]

\* a call raised after these were appended, and "except: pass" left it there
PassedOver(appended) == [raised |-> TRUE, appended |-> appended]

check_organizations(a) ==
    IF a.describe_organization = "raises"
    THEN Caught(<<>>, "AWS Organizations")
    ELSE LET features ==
                 <<HealthCheckResult("AWS Organizations",
                                     IF a.describe_organization = "ALL"
                                     THEN "PASS" ELSE "WARN")>>
         IN  IF a.policy_types = "malformed"
             THEN Caught(features, "AWS Organizations")
             ELSE Completed(Append(features,
                     HealthCheckResult("Service Control Policies",
                                       IF a.policy_types = "scp_enabled"
                                       THEN "PASS" ELSE "FAIL")))

check_guardduty(a) ==
    IF a.list_detectors = "raises" THEN Caught(<<>>, "GuardDuty")
    ELSE IF a.list_detectors = "none" THEN Found("GuardDuty", "FAIL")
    ELSE IF a.get_detector = "raises" THEN Caught(<<>>, "GuardDuty")
    ELSE IF a.get_detector # "ENABLED" THEN Found("GuardDuty", "FAIL")
    ELSE IF a.list_findings = "raises" THEN Caught(<<>>, "GuardDuty")
    ELSE IF a.finding_count = 0 THEN Found("GuardDuty", "PASS")
    ELSE Found("GuardDuty", "WARN")

check_security_hub(a) ==
    IF a.describe_hub = "raises" THEN Caught(<<>>, "Security Hub")
    ELSE IF a.describe_hub = "not_found" THEN Caught(<<>>, "Security Hub")
    ELSE IF a.describe_hub = "empty" THEN Completed(<<>>)
    ELSE IF a.get_findings = "raises" THEN Caught(<<>>, "Security Hub")
    ELSE IF a.failed_count = 0 THEN Found("Security Hub", "PASS")
    ELSE IF a.failed_count < 10 THEN Found("Security Hub", "WARN")
    ELSE Found("Security Hub", "FAIL")

check_config(a) ==
    IF a.describe_configuration_recorders = "raises"
    THEN Caught(<<>>, "AWS Config")
    ELSE IF a.describe_configuration_recorders = "none"
    THEN Found("AWS Config", "FAIL")
    ELSE IF a.describe_configuration_recorder_status = "raises"
    THEN Caught(<<>>, "AWS Config")
    ELSE IF a.describe_configuration_recorder_status = "empty"
    THEN Completed(<<>>)
    ELSE IF a.describe_configuration_recorder_status = "stopped"
    THEN Found("AWS Config", "FAIL")
    ELSE IF a.describe_compliance_by_config_rule = "raises"
    THEN Caught(<<>>, "AWS Config")
    ELSE Found("AWS Config", ByRate(a.rules))

check_cloudtrail(a) ==
    IF a.describe_trails = "raises" THEN Caught(<<>>, "CloudTrail")
    ELSE IF a.describe_trails = "none" THEN Found("CloudTrail", "FAIL")
    ELSE IF a.describe_trails = "account_trails" THEN Found("CloudTrail", "WARN")
    ELSE IF a.get_trail_status = "raises" THEN Caught(<<>>, "CloudTrail")
    ELSE IF a.get_trail_status = "logging" THEN Found("CloudTrail", "PASS")
    ELSE Found("CloudTrail", "FAIL")

check_transit_gateway(a) ==
    IF a.describe_transit_gateways = "raises"
    THEN Caught(<<>>, "Transit Gateway")
    ELSE IF a.describe_transit_gateways = "none"
    THEN Found("Transit Gateway", "WARN")
    ELSE IF a.describe_transit_gateways # "available"
    THEN Found("Transit Gateway", "FAIL")
    ELSE IF a.describe_transit_gateway_attachments = "raises"
    THEN Caught(<<>>, "Transit Gateway")
    ELSE Found("Transit Gateway", "PASS")

check_vpc_endpoints(a) ==
    IF a.describe_vpc_endpoints = "raises" THEN Caught(<<>>, "VPC Endpoints")
    ELSE IF a.describe_vpc_endpoints = "s3_gateway"
    THEN Found("VPC Endpoints", "PASS")
    ELSE Found("VPC Endpoints", "WARN")

\* the first part of check_costs: the cost of yesterday, thirty times over
CostResults(a) ==
    IF a.get_cost_and_usage = "empty" THEN <<>>
    ELSE IF a.daily_cost * 30 < 5000
    THEN <<HealthCheckResult("Cost Management", "PASS")>>
    ELSE <<HealthCheckResult("Cost Management", "WARN")>>

check_costs(a) ==
    IF a.get_cost_and_usage = "raises" THEN Caught(<<>>, "Cost Management")
    ELSE IF a.get_anomalies = "raises" THEN PassedOver(CostResults(a))
    ELSE Completed(Append(CostResults(a),
             HealthCheckResult("Cost Anomalies",
                               IF a.get_anomalies = "some" THEN "WARN" ELSE "PASS")))

check_backups(a) ==
    IF a.list_backup_jobs = "raises" THEN Caught(<<>>, "AWS Backup")
    ELSE IF a.list_backup_jobs = "none" THEN Found("AWS Backup", "WARN")
    ELSE Found("AWS Backup", ByRate(a.jobs))

\* ----------------------------------------------------------- state machine

VARIABLES
    org_profile,   \* self.org_profile
    pricing,       \* self.pricing
    pc,            \* where generate_cost_report stands
    services,      \* the list `services`, as far as it is built
    totals,        \* <<>> or <<the totals computed from services>>
    report,        \* <<>> or <<the mapping returned>>
    error,         \* "none" or the exception that left generate_cost_report
    previous,      \* what the earlier calls of generate_cost_report gave
    \* health-check.py
    hc_pc,         \* where main of the health check stands ("none": not run)
    output,        \* args.output
    export,        \* whether args.export names a file
    next_check,    \* the check run_all_checks makes next, 1 to 9
    results,       \* self.results
    history,       \* the checks made so far and where their results stand
    unhealthy,     \* how many checks found something other than PASS
    runs,          \* the calls of run_all_checks that have returned
    summary,       \* <<>> or <<the counts print_results printed>>
    returned,      \* what print_results returned, -1 before
    exit_code,     \* the exit status of the process, -1 while it runs
    stderr,        \* the messages main printed to sys.stderr
    \* compliance-report.py
    cr_pc,           \* where main of the reporter stands ("none": not run)
    accounts,        \* the list get_all_accounts returned
    listing,         \* how list_accounts answered
    analyzed,        \* how many accounts the loop has been through
    total_score,     \* the sum of the config scores, in percent
    critical_issues, \* the CRITICAL findings counted
    high_issues,     \* the HIGH findings counted
    cr_status,       \* the status line printed, "" before
    cr_results,      \* <<>> or <<the mapping generate_report returned>>
    fatal,           \* whether main printed "Fatal error"
    cr_exit          \* the exit status of the reporter, -1 while it runs

calculator_vars ==
    <<org_profile, pricing, pc, services, totals, report, error, previous>>

health_vars ==
    <<hc_pc, output, export, next_check, results, history, unhealthy, runs,
      summary, returned, exit_code, stderr>>

reporter_vars ==
    <<cr_pc, accounts, listing, analyzed, total_score, critical_issues,
      high_issues, cr_status, cr_results, fatal, cr_exit>>

vars == <<calculator_vars, health_vars, reporter_vars>>

\* no health check runs beside the cost calculator
NoHealthCheck ==
    /\ hc_pc = "none"
    /\ output = "text"
    /\ export = FALSE
    /\ next_check = 0
    /\ results = <<>>
    /\ history = <<>>
    /\ unhealthy = 0
    /\ runs = 0
    /\ summary = <<>>
    /\ returned = -1
    /\ exit_code = -1
    /\ stderr = <<>>

\* no compliance report is made beside
NoReporter ==
    /\ cr_pc = "none"
    /\ accounts = <<>>
    /\ listing = "none"
    /\ analyzed = 0
    /\ total_score = 0
    /\ critical_issues = 0
    /\ high_issues = 0
    /\ cr_status = ""
    /\ cr_results = <<>>
    /\ fatal = FALSE
    /\ cr_exit = -1

\* LandingZoneCostCalculator(org_profile): the profile is taken as given
Init ==
    /\ org_profile \in OrganizationProfile
    /\ pricing = AWSPricing
    /\ pc = "calculate"
    /\ services = <<>>
    /\ totals = <<>>
    /\ report = <<>>
    /\ error = "none"
    /\ previous = <<>>
    /\ NoHealthCheck
    /\ NoReporter

\* Calculate with the list of regions cleared of repeated identifiers in
\* place before the calculator reads it
CalculateNormalisingRegions(k, cost) ==
    /\ pc = "calculate"
    /\ Len(services) = k - 1
    /\ services' = Append(services, cost)
    /\ pc' = IF k = 8 THEN "aggregate" ELSE "calculate"
    /\ org_profile' =
           [org_profile EXCEPT !.regions =
               IF Len(@) = 2 /\ @[1] = @[2] THEN <<@[1]>> ELSE @]
    /\ UNCHANGED <<pricing, totals, report, error, previous>>
    /\ UNCHANGED <<health_vars, reporter_vars>>

\* the k-th element of the list `services` is evaluated
Calculate(k, cost) ==
    /\ pc = "calculate"
    /\ Len(services) = k - 1
    /\ services' = Append(services, cost)
    /\ pc' = IF k = 8 THEN "aggregate" ELSE "calculate"
    /\ UNCHANGED <<org_profile, pricing, totals, report, error, previous>>
    /\ UNCHANGED <<health_vars, reporter_vars>>

CalculateControlTower == Calculate(1, calculate_control_tower_costs(org_profile))
CalculateGuardDuty == Calculate(2, calculate_guardduty_costs(org_profile))
CalculateConfig == Calculate(3, calculate_config_costs(org_profile))
CalculateTransitGateway == Calculate(4, calculate_transit_gateway_costs(org_profile))
CalculateCloudTrail == Calculate(5, calculate_cloudtrail_costs(org_profile))
CalculateCloudWatch == Calculate(6, calculate_cloudwatch_costs(org_profile))
CalculateSecurityHub == Calculate(7, calculate_security_hub_costs(org_profile))
CalculateBackup == Calculate(8, calculate_backup_costs(org_profile))

\* total_monthly / employees and total_annual / employees divide by zero
EmployeeDivides(p) == p.employees = 0

\* the totals, then total / employees
Aggregate ==
    /\ pc = "aggregate"
    /\ IF EmployeeDivides(org_profile)
       THEN /\ pc' = "failed"
            /\ error' = "ZeroDivisionError"
            /\ UNCHANGED totals
       ELSE /\ pc' = "assemble"
            /\ totals' = <<ComputeTotals(services)>>
            /\ UNCHANGED error
    /\ UNCHANGED <<org_profile, pricing, services, report, previous>>
    /\ UNCHANGED <<health_vars, reporter_vars>>

\* AssembleReport with the list of recommendations kept from call to call
\* and extended by each
AssembleReportAccumulating ==
    /\ pc = "assemble"
    /\ IF ReportDivides(org_profile, totals[1])
       THEN /\ pc' = "failed"
            /\ error' = "ZeroDivisionError"
            /\ UNCHANGED report
       ELSE /\ pc' = "done"
            /\ report' =
                   <<[BuildReport(org_profile, services, totals[1])
                        EXCEPT !.recommendations =
                            (IF previous = <<>> THEN <<>>
                             ELSE previous[Len(previous)].report[1].recommendations)
                                \o @]>>
            /\ UNCHANGED error
    /\ UNCHANGED <<org_profile, pricing, services, totals, previous>>
    /\ UNCHANGED <<health_vars, reporter_vars>>

\* the returned mapping
AssembleReport ==
    /\ pc = "assemble"
    /\ IF ReportDivides(org_profile, totals[1])
       THEN /\ pc' = "failed"
            /\ error' = "ZeroDivisionError"
            /\ UNCHANGED report
       ELSE /\ pc' = "done"
            /\ report' = <<BuildReport(org_profile, services, totals[1])>>
            /\ UNCHANGED error
    /\ UNCHANGED <<org_profile, pricing, services, totals, previous>>
    /\ UNCHANGED <<health_vars, reporter_vars>>

\* generate_cost_report is called once more on the same calculator: the
\* names of the call that ended are gone, self is what it is
CallAgain ==
    /\ pc \in {"done", "failed"}
    /\ Len(previous) < MaxCalls - 1
    /\ previous' = Append(previous,
                          [services |-> services, report |-> report, error |-> error])
    /\ pc' = "calculate"
    /\ services' = <<>>
    /\ totals' = <<>>
    /\ report' = <<>>
    /\ error' = "none"
    /\ UNCHANGED <<org_profile, pricing>>
    /\ UNCHANGED <<health_vars, reporter_vars>>

Next ==
    \/ CalculateControlTower
    \/ CalculateGuardDuty
    \/ CalculateConfig
    \/ CalculateTransitGateway
    \/ CalculateCloudTrail
    \/ CalculateCloudWatch
    \/ CalculateSecurityHub
    \/ CalculateBackup
    \/ Aggregate
    \/ AssembleReport

Spec == Init /\ [][Next]_vars

\* the profiles on which generate_cost_report is called again: none, one,
\* the default and twenty-one accounts, with the default data volume and
\* share of development accounts
CallProfiles ==
    {p \in OrganizationProfile :
        /\ p.accounts_count \in {0, 1, DefaultAccounts, 21}
        /\ p.expected_data_gb_monthly = DefaultDataGb
        /\ p.development_accounts_ratio = DefaultDevRatioPct}

InitCalls ==
    /\ Init
    /\ org_profile \in CallProfiles

NextCalls ==
    \/ Next
    \/ CallAgain

\* a calculator on which generate_cost_report is called more than once
SpecCalls == InitCalls /\ [][NextCalls]_vars

\* ------------------------------------------------------------- properties

\* 12 * a, by additions
Times12(a) ==
    LET a2 == NumAdd(a, a)
        a4 == NumAdd(a2, a2)
        a8 == NumAdd(a4, a4)
    IN  NumAdd(a8, a4)

\* generate_cost_report has bound its totals
Aggregated == totals # <<>>

\* generate_cost_report has returned
Returned == report # <<>>

\* the run has ended, by return or by exception
Ended == pc \in {"done", "failed"}

\* the run stands where one of the steps of Next is taken: before one of the
\* eight calculators, before the aggregation or before the assembly
Running ==
    \/ pc = "calculate" /\ Len(services) < 8
    \/ pc = "aggregate" /\ Len(services) = 8
    \/ pc = "assemble" /\ Aggregated

\* the monthly costs of eight services, added one by one
MonthlySumOfEight(svcs) ==
    NumAdd(NumAdd(NumAdd(NumAdd(NumAdd(NumAdd(NumAdd(
        svcs[1].monthly_cost, svcs[2].monthly_cost), svcs[3].monthly_cost),
        svcs[4].monthly_cost), svcs[5].monthly_cost), svcs[6].monthly_cost),
        svcs[7].monthly_cost), svcs[8].monthly_cost)

\* C1: for a valid profile the total_monthly of generate_cost_report is the
\* sum of monthly_cost over exactly the eight ServiceCost entries that go
\* into the breakdown, and aggregating the same list again gives the same
\* total.
C1_TotalMonthlyIsSumOfEight ==
    (Aggregated /\ ValidProfile(org_profile)) =>
        /\ Len(services) = 8
        /\ totals[1].total_monthly = MonthlySumOfEight(services)
        /\ ComputeTotals(services).total_monthly = totals[1].total_monthly
        /\ Returned =>
            /\ Len(report[1].cost_breakdown.services) = 8
            /\ \A i \in 1 .. 8 :
                /\ report[1].cost_breakdown.services[i].name
                       = services[i].service_name
                /\ report[1].cost_breakdown.services[i].monthly_cost
                       = NumRound2(services[i].monthly_cost)

\* the default profile of the command line has been aggregated to 1952.3875
C1_Witness ==
    /\ Returned
    /\ ValidProfile(org_profile)
    /\ org_profile.accounts_count = DefaultAccounts
    /\ totals[1].total_monthly = [d |-> 1952, n |-> 387500000]

\* C2: for a valid profile every ServiceCost has annual_cost = 12 *
\* monthly_cost, and total_annual (the sum of the annual costs) is 12 *
\* total_monthly.
C2_AnnualIsTwelveTimesMonthly ==
    ValidProfile(org_profile) =>
        /\ \A i \in 1 .. Len(services) :
               services[i].annual_cost = Times12(services[i].monthly_cost)
        /\ Aggregated =>
               totals[1].total_annual = Times12(totals[1].total_monthly)

\* a valid profile whose totals have digits below the cent
C2_Witness ==
    /\ Aggregated
    /\ ValidProfile(org_profile)
    /\ Len(services) = 8
    /\ org_profile.expected_data_gb_monthly = 1
    /\ totals[1].total_annual.n % CentNano # 0
    /\ totals[1].total_annual = Times12(totals[1].total_monthly)

\* C3: for a valid profile optimized_monthly <= total_monthly, with equality
\* exactly when every service has optimization_potential 0.
C3_OptimizedAtMostTotal ==
    (Aggregated /\ ValidProfile(org_profile)) =>
        /\ NumLeq(totals[1].optimized_monthly, totals[1].total_monthly)
        /\ (totals[1].optimized_monthly = totals[1].total_monthly)
               <=> (\A i \in 1 .. Len(services) :
                        services[i].optimization_potential = 0)

\* a valid profile aggregated with some service discounted
C3_Witness ==
    /\ Aggregated
    /\ ValidProfile(org_profile)
    /\ \E i \in 1 .. Len(services) : services[i].optimization_potential > 0
    /\ NumLess(totals[1].optimized_monthly, totals[1].total_monthly)

RECURSIVE PotentialSum(_)
\* the sum over the services of monthly_cost * optimization_potential
PotentialSum(svcs) ==
    IF svcs = <<>> THEN NumZero
    ELSE NumAdd(NumMulFrac(Head(svcs).monthly_cost,
                           Head(svcs).optimization_potential, 100),
                PotentialSum(Tail(svcs)))

\* C4: optimized_monthly is the sum of monthly_cost * (1 -
\* optimization_potential), each service with its own potential, that is
\* total_monthly less the sum of monthly_cost * optimization_potential;
\* optimized_annual is 12 * optimized_monthly; the potential savings are
\* total less optimized, monthly and annual.
C4_OptimizedPerService ==
    Aggregated =>
        /\ totals[1].optimized_monthly
               = NumSub(totals[1].total_monthly, PotentialSum(services))
        /\ totals[1].optimized_annual = Times12(totals[1].optimized_monthly)
        /\ NumAdd(totals[1].optimized_monthly,
                  totals[1].potential_savings_monthly)
               = totals[1].total_monthly
        /\ NumAdd(totals[1].optimized_annual,
                  totals[1].potential_savings_annual)
               = totals[1].total_annual

\* the default profile: 505.347125 a month can be saved, which is no single
\* fraction of the 1952.3875 spent that a service's potential names
C4_Witness ==
    /\ Returned
    /\ org_profile.accounts_count = DefaultAccounts
    /\ totals[1].total_monthly = [d |-> 1952, n |-> 387500000]
    /\ totals[1].potential_savings_monthly = [d |-> 505, n |-> 347125000]

\* accounts_count or employees is zero or negative
CountsViolated(p) == p.accounts_count <= 0 \/ p.employees <= 0

\* the invariants of a profile other than those of the counts
ValidBesidesCounts(p) ==
    /\ p.development_accounts_ratio >= 0
    /\ p.development_accounts_ratio <= 100
    /\ Len(p.regions) >= 1
    /\ p.expected_data_gb_monthly >= 0

\* C5: a profile that violates the count invariants (and no other) is
\* rejected before any of the eight calculators runs, with a precondition
\* failure and never with a division fault: when the run has ended, no
\* calculator has run, nothing is returned and the error is the rejection.
C5_CountsRejectedBeforeCalculators ==
    (Ended /\ CountsViolated(org_profile) /\ ValidBesidesCounts(org_profile)) =>
        /\ services = <<>>
        /\ report = <<>>
        /\ error \notin {"none", "ZeroDivisionError"}

\* development_accounts_ratio is outside [0, 1]
RatioViolated(p) ==
    p.development_accounts_ratio < 0 \/ p.development_accounts_ratio > 100

\* the invariants of a profile other than that of the ratio
ValidBesidesRatio(p) ==
    /\ p.accounts_count >= 1
    /\ p.employees >= 1
    /\ Len(p.regions) >= 1
    /\ p.expected_data_gb_monthly >= 0

\* C6: for a profile whose development_accounts_ratio is outside [0, 1] (and
\* which is valid otherwise) no report is produced, so no report holds a
\* backup cost computed from a negative count of production or development
\* accounts.
C6_RatioOutOfRangeNoReport ==
    ValidBesidesRatio(org_profile) =>
        /\ RatioViolated(org_profile) => report = <<>>
        /\ Returned =>
               /\ BackupProdAccounts(org_profile) >= 0
               /\ BackupDevAccounts(org_profile) >= 0

\* C7: for a valid profile the eight calculators and generate_cost_report
\* complete without raising: the run goes on until it returns, and the
\* totals are strictly positive, so that no division faults.
C7_ValidProfileCompletes ==
    ValidProfile(org_profile) =>
        /\ error = "none"
        /\ pc # "failed"
        /\ pc = "done" \/ Running
        /\ pc = "done" => Returned
        /\ Aggregated =>
               /\ NumLess(NumZero, totals[1].total_monthly)
               /\ NumLess(NumZero, totals[1].total_annual)
               /\ ~EmployeeDivides(org_profile)
               /\ ~ReportDivides(org_profile, totals[1])

\* the smallest valid profile has been reported
C7_Witness ==
    /\ Returned
    /\ ValidProfile(org_profile)
    /\ org_profile.accounts_count = 1
    /\ org_profile.employees = 1
    /\ org_profile.expected_data_gb_monthly = 0

\* C8: zero-valued inputs give zero-valued contributions and no fault: with
\* an empty compliance_requirements the Security Hub cost is the finding
\* ingestion alone; with expected_data_gb_monthly = 0 GuardDuty costs
\* base_per_account * accounts_count, Transit Gateway its attachments,
\* CloudTrail its baseline and CloudWatch its per-account base.
C8_ZeroInputsZeroContributions ==
    LET p == org_profile
        acc == NumInt(p.accounts_count)
        noFrameworks == Len(p.compliance_requirements) = 0
        noData == p.expected_data_gb_monthly = 0
    IN  /\ (noFrameworks /\ Len(services) >= 7) =>
               services[7].monthly_cost
                   = NumMulFrac(NumInt(p.accounts_count * 10000),
                                SECURITY_HUB_FINDING_INGESTION_PER_100K,
                                100000 * 1000)
        /\ (noData /\ Len(services) >= 2) =>
               services[2].monthly_cost
                   = NumMulMilli(acc, GUARDDUTY_BASE_PER_ACCOUNT)
        /\ (noData /\ Len(services) >= 4) =>
               services[4].monthly_cost
                   = NumMulMilli(
                         NumInt(p.accounts_count * 2 * Len(p.regions) * 720),
                         TGW_ATTACHMENT_HOURLY)
        /\ (noData /\ Len(services) >= 5) =>
               services[5].monthly_cost = Price(CLOUDTRAIL_TYPICAL_MONTHLY)
        /\ (noData /\ Len(services) >= 6) =>
               services[6].monthly_cost
                   = NumMulMilli(acc, CLOUDWATCH_TYPICAL_PER_ACCOUNT)
        /\ ((noFrameworks \/ noData) /\ ValidProfile(p)) =>
               error = "none" /\ (pc = "done" \/ Running)

\* a report for no framework and no data
C8_Witness ==
    /\ Returned
    /\ org_profile.compliance_requirements = <<>>
    /\ org_profile.expected_data_gb_monthly = 0
    /\ org_profile.accounts_count = DefaultAccounts
    /\ services[7].monthly_cost = [d |-> 0, n |-> 300000000]

\* C9: the Control Tower ServiceCost is the same for every profile: 89.10 a
\* month, 1069.20 a year, optimization_potential 0, cost_tier enterprise,
\* whatever accounts_count and the other fields are.
C9_ControlTowerFlat ==
    /\ Len(services) >= 1 =>
           /\ services[1].service_name = "AWS Control Tower"
           /\ services[1].monthly_cost = [d |-> 89, n |-> 100000000]
           /\ services[1].annual_cost = [d |-> 1069, n |-> 200000000]
           /\ services[1].optimization_potential = 0
           /\ services[1].cost_tier = "enterprise"
    /\ Returned =>
           /\ report[1].cost_breakdown.services[1].monthly_cost
                  = [d |-> 89, n |-> 100000000]
           /\ report[1].cost_breakdown.services[1].annual_cost
                  = [d |-> 1069, n |-> 200000000]

\* the Control Tower cost of sixty accounts in three regions
C9_Witness ==
    /\ Len(services) >= 1
    /\ org_profile.accounts_count = 60
    /\ Len(org_profile.regions) = 3
    /\ services[1].monthly_cost = Price(CONTROL_TOWER_BASE)

ServiceOrder ==
    <<"AWS Control Tower", "Amazon GuardDuty", "AWS Config",
      "AWS Transit Gateway", "AWS CloudTrail", "Amazon CloudWatch",
      "AWS Security Hub", "AWS Backup">>

\* C10: for a valid profile cost_breakdown.services holds exactly eight
\* entries, one per service, none repeated or left out, in the order Control
\* Tower, GuardDuty, Config, Transit Gateway, CloudTrail, CloudWatch,
\* Security Hub, Backup, whatever the costs are.
C10_EightServicesInOrder ==
    (Returned /\ ValidProfile(org_profile)) =>
        /\ Len(report[1].cost_breakdown.services) = 8
        /\ \A i \in 1 .. 8 :
               report[1].cost_breakdown.services[i].name = ServiceOrder[i]

\* a report whose entries are not in the order of their costs: Security Hub
\* under a dollar before Backup, Transit Gateway above GuardDuty
C10_Witness ==
    /\ Returned
    /\ ValidProfile(org_profile)
    /\ NumLess(services[7].monthly_cost, NumInt(1))
    /\ NumLess(services[7].monthly_cost, services[8].monthly_cost)
    /\ NumLess(services[2].monthly_cost, services[4].monthly_cost)
    /\ report[1].cost_breakdown.services[7].name = "AWS Security Hub"

\* ------------------------------------------------------------------ C11

\* the profile with twice the accounts and every other field as it is
DoubledAccounts(p) == [p EXCEPT !.accounts_count = 2 * @]

\* the eight calculators applied to a profile, in the order of the report
AllServices(p) ==
    <<calculate_control_tower_costs(p),
      calculate_guardduty_costs(p),
      calculate_config_costs(p),
      calculate_transit_gateway_costs(p),
      calculate_cloudtrail_costs(p),
      calculate_cloudwatch_costs(p),
      calculate_security_hub_costs(p),
      calculate_backup_costs(p)>>

\* the k-th element of the list `services` for a profile
ServiceAt(p, k) ==
    CASE k = 1 -> calculate_control_tower_costs(p)
      [] k = 2 -> calculate_guardduty_costs(p)
      [] k = 3 -> calculate_config_costs(p)
      [] k = 4 -> calculate_transit_gateway_costs(p)
      [] k = 5 -> calculate_cloudtrail_costs(p)
      [] k = 6 -> calculate_cloudwatch_costs(p)
      [] k = 7 -> calculate_security_hub_costs(p)
      [] k = 8 -> calculate_backup_costs(p)

\* GuardDuty, Config, Transit Gateway, CloudWatch, Security Hub, Backup
AccountScaledServices == {2, 3, 4, 6, 7, 8}

\* C11: for a valid profile, each of the six per-account services costs
\* strictly less per month than the same calculator gives for the profile
\* with accounts_count doubled and nothing else changed, and Control Tower
\* costs the same for both.
C11_DoublingAccountsRaisesScaledServices ==
    ValidProfile(org_profile) =>
        \A k \in 1 .. Len(services) :
            LET doubled == ServiceAt(DoubledAccounts(org_profile), k)
            IN  /\ k \in AccountScaledServices =>
                    /\ NumLess(services[k].monthly_cost, doubled.monthly_cost)
                    /\ services[k].monthly_cost # doubled.monthly_cost
                /\ k = 1 => services[k].monthly_cost = doubled.monthly_cost

\* all eight calculators have run for a valid profile whose accounts are
\* all development accounts and which names no compliance framework
C11_Witness ==
    /\ ValidProfile(org_profile)
    /\ org_profile.development_accounts_ratio = 100
    /\ org_profile.compliance_requirements = <<>>
    /\ Len(services) = 8
    /\ NumLess(services[8].monthly_cost,
               calculate_backup_costs(DoubledAccounts(org_profile)).monthly_cost)

\* ------------------------------------------------------------------ C12

\* x / k rounded to the nearest integer, a half to the even one: round()
RoundDiv(x, k) ==
    LET q == x \div k
        r == x % k
    IN  IF 2 * r > k \/ (2 * r = k /\ q % 2 = 1) THEN q + 1 ELSE q

\* round(accounts_count * (1 - development_accounts_ratio))
RoundedProdAccounts(p) ==
    RoundDiv(p.accounts_count * (100 - p.development_accounts_ratio), 100)

\* the monthly backup cost of a split into prod_accounts and the rest
BackupCostOfSplit(p, prod_accounts) ==
    LET storage_gb ==
            (prod_accounts * 100) + ((p.accounts_count - prod_accounts) * 30)
    IN  NumAdd(NumMulMilli(NumInt(storage_gb), AWS_BACKUP_STORAGE_PER_GB_MONTH),
               NumMulMilli(NumMulFrac(NumInt(storage_gb), 5, 10),
                           AWS_BACKUP_CROSS_REGION_COPY_PER_GB))

\* C12: for a valid profile the monthly cost of AWS Backup is the cost of
\* the split with prod_accounts = round(accounts_count * (1 -
\* development_accounts_ratio)) and dev_accounts the remaining accounts:
\* storage_gb = prod * 100 + dev * 30, half of it copied across regions.
C12_BackupSplitRounds ==
    (ValidProfile(org_profile) /\ Len(services) = 8) =>
        services[8].monthly_cost =
            BackupCostOfSplit(org_profile, RoundedProdAccounts(org_profile))

\* ------------------------------------------------------------------ C13

\* attachments = accounts_count x 2 x number of regions
TransitAttachments(p) == p.accounts_count * 2 * Len(p.regions)

\* attachments x hourly price x 720
TransitAttachmentCost(p) ==
    NumMulMilli(NumInt(TransitAttachments(p) * 720), TGW_ATTACHMENT_HOURLY)

\* (expected_data_gb_monthly x 0.7) x price per GB
TransitDataProcessingCost(p) ==
    NumMulMilli(NumMulFrac(NumInt(p.expected_data_gb_monthly), 7, 10),
                TGW_DATA_PROCESSING_PER_GB)

\* C13: the Transit Gateway entry costs per month the attachment cost
\* (accounts_count x 2 x number of regions attachments, each at the hourly
\* price for 720 hours) plus the data processing cost (0.7 of
\* expected_data_gb_monthly at the price per GB), and its
\* optimization_potential is 0.30.
C13_TransitGatewayFormula ==
    Len(services) >= 4 =>
        /\ services[4].service_name = "AWS Transit Gateway"
        /\ services[4].monthly_cost =
               NumAdd(TransitAttachmentCost(org_profile),
                      TransitDataProcessingCost(org_profile))
        /\ services[4].optimization_potential = 30

\* the Transit Gateway calculator has run for several accounts in several
\* regions with data to process
C13_Witness ==
    /\ Len(services) >= 4
    /\ org_profile.accounts_count = DefaultAccounts
    /\ Len(org_profile.regions) = 3
    /\ org_profile.expected_data_gb_monthly = DefaultDataGb
    /\ services[4].monthly_cost = NumAdd(NumInt(2160), NumInt(14))

\* ------------------------------------------------------------------ C14

\* the profile with the region at position i named once more at the end
WithRegionRepeated(p, i) == [p EXCEPT !.regions = Append(@, p.regions[i])]

HasFactor(analysis, factor) ==
    \E j \in 1 .. Len(analysis.risk_factors) : analysis.risk_factors[j] = factor

\* C14: naming once more a region the profile already names changes
\* nothing: the Transit Gateway monthly cost, the totals and the presence
\* of the multi-region risk factor are those of the report for the profile
\* as it is.
C14_DuplicateRegionIgnored ==
    (ValidProfile(org_profile) /\ Returned) =>
        \A i \in 1 .. Len(org_profile.regions) :
            LET again == WithRegionRepeated(org_profile, i)
                svcs == AllServices(again)
                t == ComputeTotals(svcs)
            IN  /\ svcs[4].monthly_cost = services[4].monthly_cost
                /\ t = totals[1]
                /\ HasFactor(_generate_risk_analysis(again, t.total_monthly),
                             "multi_region_complexity")
                       <=> HasFactor(report[1].risk_analysis,
                                     "multi_region_complexity")

\* ------------------------------------------------------------------ C15

\* C15: for a valid profile every ServiceCost in the list has a
\* monthly_cost of zero or more, an optimization_potential from 0 to 1
\* (0 to 100 hundredths) and a cost_tier that is one of standard,
\* enterprise and premium.
C15_ServiceCostWellFormed ==
    ValidProfile(org_profile) =>
        \A k \in 1 .. Len(services) :
            /\ NumLeq(NumZero, services[k].monthly_cost)
            /\ services[k].optimization_potential >= 0
            /\ services[k].optimization_potential <= 100
            /\ services[k].cost_tier \in {"standard", "enterprise", "premium"}

\* all eight ServiceCost objects exist for a valid profile with development
\* accounts, and the three tiers and a zero potential occur among them
C15_Witness ==
    /\ ValidProfile(org_profile)
    /\ org_profile.development_accounts_ratio = 100
    /\ Len(services) = 8
    /\ {services[k].cost_tier : k \in 1 .. 8}
           = {"standard", "enterprise", "premium"}
    /\ \E k \in 1 .. 8 : services[k].optimization_potential = 0
    /\ NumLess(NumZero, services[8].monthly_cost)

\* ------------------------------------------------------------------ C16

\* savings is the fraction pct / 100 of total_annual
IsShareOf(savings, pct, total_annual) ==
    NumTimesNat(savings, 100) = NumTimesInt(total_annual, pct)

\* C16: whatever the profile, the first entry of the recommendation list
\* of a report is the Transit Gateway reserved-capacity one (high
\* priority, low effort, savings 0.15 of total_annual) and the second the
\* log retention one (high priority, medium effort, savings 0.12 of
\* total_annual).
C16_FirstTwoRecommendationsFixed ==
    Returned =>
        LET recs == report[1].recommendations
            total_annual == totals[1].total_annual
        IN  /\ Len(recs) >= 2
            /\ recs[1].category = "cost_optimization"
            /\ recs[1].title = "Implement Transit Gateway Reserved Instances"
            /\ recs[1].priority = "high"
            /\ recs[1].implementation_effort = "low"
            /\ IsShareOf(recs[1].estimated_savings_annual, 15, total_annual)
            /\ recs[2].category = "log_optimization"
            /\ recs[2].title = "Configure CloudWatch Logs retention policies"
            /\ recs[2].priority = "high"
            /\ recs[2].implementation_effort = "medium"
            /\ IsShareOf(recs[2].estimated_savings_annual, 12, total_annual)

\* a report whose list has all four entries, the first two worth
\* different positive amounts
C16_Witness ==
    /\ Returned
    /\ Len(report[1].recommendations) = 4
    /\ NumLess(NumZero, report[1].recommendations[2].estimated_savings_annual)
    /\ NumLess(report[1].recommendations[2].estimated_savings_annual,
               report[1].recommendations[1].estimated_savings_annual)

\* ------------------------------------------------------------------ C17

\* the positions of the list that hold an entry of the category
PositionsOf(recs, category) ==
    {j \in 1 .. Len(recs) : recs[j].category = category}

\* C17: the list of a report has the budget controls entry (category
\* governance) exactly when accounts_count is greater than 20, so not at
\* 20; it has it at most once, and the entry is of medium priority and high
\* effort with savings 0.08 of total_annual.
C17_BudgetControlsIffAboveTwenty ==
    Returned =>
        LET recs == report[1].recommendations
            at == PositionsOf(recs, "governance")
        IN  /\ at # {} <=> org_profile.accounts_count > 20
            /\ org_profile.accounts_count = 20 => at = {}
            /\ Cardinality(at) <= 1
            /\ \A j \in at :
                   /\ recs[j].title = "Implement account-level budget controls"
                   /\ recs[j].priority = "medium"
                   /\ recs[j].implementation_effort = "high"
                   /\ IsShareOf(recs[j].estimated_savings_annual, 8,
                                totals[1].total_annual)

\* a report for exactly 20 accounts, which has no governance entry
C17_Witness ==
    /\ Returned
    /\ org_profile.accounts_count = 20
    /\ PositionsOf(report[1].recommendations, "governance") = {}

\* ------------------------------------------------------------------ C18

\* "pci-dss" is one of the compliance requirements
NamesPci(p) ==
    "pci-dss" \in {p.compliance_requirements[i] :
                       i \in 1 .. Len(p.compliance_requirements)}

\* C18: the list of a report has the PCI DSS scope entry (category
\* compliance) exactly when "pci-dss" is among compliance_requirements,
\* wherever and however often it is named and whether or not the budget
\* controls entry is there; the entry is of medium priority and high effort
\* with savings 0.05 of total_annual.
C18_PciScopeIffPciNamed ==
    Returned =>
        LET recs == report[1].recommendations
            at == PositionsOf(recs, "compliance")
        IN  /\ at # {} <=> NamesPci(org_profile)
            /\ Cardinality(at) <= 1
            /\ \A j \in at :
                   /\ recs[j].title = "Optimize PCI DSS scope"
                   /\ recs[j].priority = "medium"
                   /\ recs[j].implementation_effort = "high"
                   /\ IsShareOf(recs[j].estimated_savings_annual, 5,
                                totals[1].total_annual)

\* a report with the PCI DSS entry and without the budget controls entry,
\* for a profile that names "pci-dss" second
C18_Witness ==
    /\ Returned
    /\ org_profile.compliance_requirements = <<"sox", "pci-dss">>
    /\ org_profile.accounts_count <= 20
    /\ PositionsOf(report[1].recommendations, "compliance") = {3}

\* ------------------------------------------------------------------ C19

\* the categories of the four rules, in the order the rules are evaluated
RuleOrder ==
    <<"cost_optimization", "log_optimization", "governance", "compliance">>

\* the rule an entry comes from, 0 if from none
RuleOf(rec) ==
    IF \E r \in 1 .. Len(RuleOrder) : RuleOrder[r] = rec.category
    THEN CHOOSE r \in 1 .. Len(RuleOrder) : RuleOrder[r] = rec.category
    ELSE 0

\* C19: the recommendation list of a report is a subsequence of the rule
\* order (every entry comes from a rule, and from a later rule than the
\* entry before it), it has two to four entries, and no entry of medium
\* priority stands before one of high priority.
C19_RecommendationsInRuleOrder ==
    Returned =>
        LET recs == report[1].recommendations
        IN  /\ Len(recs) >= 2
            /\ Len(recs) <= 4
            /\ \A j \in 1 .. Len(recs) : RuleOf(recs[j]) # 0
            /\ \A j \in 1 .. Len(recs) - 1 : RuleOf(recs[j]) < RuleOf(recs[j + 1])
            /\ \A i, j \in 1 .. Len(recs) :
                   (i < j /\ recs[i].priority = "medium")
                       => recs[j].priority # "high"

\* a report whose list has rules 1, 2 and 4 but not rule 3, the entry of
\* rule 4 worth less than those before it
C19_Witness ==
    /\ Returned
    /\ Len(report[1].recommendations) = 3
    /\ RuleOf(report[1].recommendations[3]) = 4
    /\ NumLess(report[1].recommendations[3].estimated_savings_annual,
               report[1].recommendations[2].estimated_savings_annual)

\* ------------------------------------------------------------------ C20

\* how often the factor stands in the analysis
TimesFactor(analysis, factor) ==
    Cardinality({j \in 1 .. Len(analysis.risk_factors) :
                     analysis.risk_factors[j] = factor})

RiskFactorNames ==
    {"high_monthly_spend", "multi_region_complexity", "account_sprawl"}

\* the risk analysis of the profile for a monthly cost of exactly 2000
RiskAtTwoThousand == _generate_risk_analysis(org_profile, NumInt(2000))

\* the risk analysis of the profile for a monthly cost of 2000.01
RiskJustAboveTwoThousand ==
    _generate_risk_analysis(org_profile, NumAdd(NumInt(2000), CentsToNum(1)))

\* C20: in the risk analysis of a report every factor stands at most once
\* and only the three known factors stand: high_monthly_spend exactly when
\* total_monthly is greater than 2000, multi_region_complexity exactly when
\* there are more than 2 regions, account_sprawl exactly when accounts_count
\* is greater than 50, each whatever the other two; a monthly cost of
\* exactly 2000 gives no high_monthly_spend and 2000.01 gives it.
C20_RiskFactorsUnderOwnCondition ==
    /\ Returned =>
        LET analysis == report[1].risk_analysis
        IN  /\ \A j \in 1 .. Len(analysis.risk_factors) :
                   analysis.risk_factors[j] \in RiskFactorNames
            /\ \A f \in RiskFactorNames : TimesFactor(analysis, f) <= 1
            /\ TimesFactor(analysis, "high_monthly_spend") = 1
                   <=> NumLess(NumInt(2000), totals[1].total_monthly)
            /\ TimesFactor(analysis, "multi_region_complexity") = 1
                   <=> Len(org_profile.regions) > 2
            /\ TimesFactor(analysis, "account_sprawl") = 1
                   <=> org_profile.accounts_count > 50
    /\ TimesFactor(RiskAtTwoThousand, "high_monthly_spend") = 0
    /\ TimesFactor(RiskJustAboveTwoThousand, "high_monthly_spend") = 1
    /\ TimesFactor(RiskAtTwoThousand, "multi_region_complexity") = 1
           <=> Len(org_profile.regions) > 2
    /\ TimesFactor(RiskAtTwoThousand, "account_sprawl") = 1
           <=> org_profile.accounts_count > 50

\* a report for exactly 50 accounts in exactly 2 regions: the spend factor
\* alone, neither boundary value having triggered its factor
C20_Witness ==
    /\ Returned
    /\ org_profile.accounts_count = 50
    /\ Len(org_profile.regions) = 2
    /\ report[1].risk_analysis.risk_factors = <<"high_monthly_spend">>
    /\ RiskAtTwoThousand.risk_factors = <<>>

\* ------------------------------------------------------------------ C21

\* the level the number of factors stands for
LevelOfCount(n) == IF n >= 2 THEN "high" ELSE IF n = 1 THEN "medium" ELSE "low"

LevelRank(level) ==
    IF level = "high" THEN 2 ELSE IF level = "medium" THEN 1 ELSE 0

\* the three factors in each of the orders the checks could be made in
FactorOrders ==
    {f \in [1 .. 3 -> RiskFactorNames] : \A a, b \in 1 .. 3 : a # b => f[a] # f[b]}

\* the factors of the analysis, listed in the order f of the checks
FactorsInOrder(analysis, f) ==
    LET Pick(k) == IF HasFactor(analysis, f[k]) THEN <<f[k]>> ELSE <<>>
    IN  Pick(1) \o Pick(2) \o Pick(3)

\* C21: the risk_level of a report is high with 2 or 3 risk factors, medium
\* with exactly 1 and low with none; the level is the same in whichever
\* order the three checks list their factors; the analysis of the same
\* profile for a monthly cost above 2000 is never of a lower level than the
\* one for 2000 (one factor more); and 60 accounts in three regions with
\* a total above 2000 give all three factors and the level high.
C21_RiskLevelByFactorCount ==
    /\ Returned =>
        LET analysis == report[1].risk_analysis
        IN  /\ analysis.risk_level = LevelOfCount(Len(analysis.risk_factors))
            /\ \A f \in FactorOrders :
                   RiskLevel(FactorsInOrder(analysis, f)) = analysis.risk_level
            /\ (/\ org_profile.accounts_count = 60
                /\ Len(org_profile.regions) = 3
                /\ NumLess(NumInt(2000), totals[1].total_monthly))
                   => /\ Len(analysis.risk_factors) = 3
                      /\ analysis.risk_level = "high"
    /\ RiskAtTwoThousand.risk_level
           = LevelOfCount(Len(RiskAtTwoThousand.risk_factors))
    /\ Len(RiskJustAboveTwoThousand.risk_factors)
           = Len(RiskAtTwoThousand.risk_factors) + 1
    /\ LevelRank(RiskJustAboveTwoThousand.risk_level)
           >= LevelRank(RiskAtTwoThousand.risk_level)

\* the report for 60 accounts in three regions, whose total is above 2000
C21_Witness ==
    /\ Returned
    /\ org_profile.accounts_count = 60
    /\ Len(org_profile.regions) = 3
    /\ NumLess(NumInt(2000), totals[1].total_monthly)
    /\ report[1].risk_analysis.risk_level = "high"
    /\ Len(report[1].risk_analysis.risk_factors) = 3

\* ------------------------------------------------------------------ C22

PricesNonNegative ==
    \A name \in DOMAIN AWSPricing : AWSPricing[name] >= 0

\* C23: no step of generate_cost_report changes the profile or the pricing
\* table of the calculator: org_profile, with its lists of regions and of
\* compliance requirements, and every price are after each step what they
\* were before it, the table is the one AWSPricing declares, and every
\* price of it is zero or more.
C23_ProfileAndPricingUntouched ==
    /\ [](pricing = AWSPricing /\ PricesNonNegative)
    /\ [][org_profile' = org_profile /\ pricing' = pricing]_vars

\* a report has been returned for a profile that names regions, one of
\* them twice, and compliance frameworks
C23_Witness ==
    /\ Returned
    /\ org_profile.regions = <<"us-east-1", "us-east-1">>
    /\ org_profile.compliance_requirements = <<"sox", "pci-dss">>
    /\ report[1].organization_profile = org_profile
    /\ pricing = AWSPricing

\* ------------------------------------------------------------------ C24
\* The eight elements of the list `services` evaluated in any order, each
\* calculator putting its ServiceCost in its own place of the list; the
\* rest of generate_cost_report follows when all eight are there.

\* the calculators that have returned
Evaluated == {k \in 1 .. 8 : \E j \in 1 .. 8 :
                 services[j] # <<>> /\ services[j][1].service_name = ServiceOrder[k]}

\* valid profiles of one and of the default number of accounts, for the
\* default number of employees (no calculator reads employees)
AnyOrderProfiles ==
    {p \in OrganizationProfile :
        /\ ValidProfile(p)
        /\ p.accounts_count \in {1, DefaultAccounts}
        /\ p.employees = DefaultEmployees}

InitAnyOrder ==
    /\ org_profile \in AnyOrderProfiles
    /\ pricing = AWSPricing
    /\ pc = "parallel"
    /\ services = [k \in 1 .. 8 |-> <<>>]
    /\ totals = <<>>
    /\ report = <<>>
    /\ error = "none"
    /\ previous = <<>>
    /\ NoHealthCheck
    /\ NoReporter

\* EvaluateAnyOrder with the ServiceCost put in the first free place, the
\* list filled in the order the calculators return
EvaluateInCompletionOrder(k) ==
    /\ pc = "parallel"
    /\ k \notin Evaluated
    /\ services' =
           [services EXCEPT ![Cardinality(Evaluated) + 1] =
               <<ServiceAt(org_profile, k)>>]
    /\ UNCHANGED <<org_profile, pricing, pc, totals, report, error, previous>>
    /\ UNCHANGED <<health_vars, reporter_vars>>

\* calculator k runs, whichever have run before it
EvaluateAnyOrder(k) ==
    /\ pc = "parallel"
    /\ services[k] = <<>>
    /\ services' = [services EXCEPT ![k] = <<ServiceAt(org_profile, k)>>]
    /\ UNCHANGED <<org_profile, pricing, pc, totals, report, error, previous>>
    /\ UNCHANGED <<health_vars, reporter_vars>>

\* all eight have returned: the list is complete
CollectAnyOrder ==
    /\ pc = "parallel"
    /\ \A k \in 1 .. 8 : services[k] # <<>>
    /\ services' = [k \in 1 .. 8 |-> services[k][1]]
    /\ pc' = "aggregate"
    /\ UNCHANGED <<org_profile, pricing, totals, report, error, previous>>
    /\ UNCHANGED <<health_vars, reporter_vars>>

NextAnyOrder ==
    \/ \E k \in 1 .. 8 : EvaluateAnyOrder(k)
    \/ CollectAnyOrder
    \/ Aggregate
    \/ AssembleReport

SpecAnyOrder == InitAnyOrder /\ [][NextAnyOrder]_vars

\* the list `services` as generate_cost_report builds it, one calculator
\* after the other; its k-th place holds ServiceAt(p, k)
SequentialServices(p) ==
    LET RECURSIVE Built(_)
        Built(k) == IF k = 0 THEN <<>> ELSE Append(Built(k - 1), ServiceAt(p, k))
    IN  Built(8)

NumAbs(a) == IF NumLess(a, NumZero) THEN NumNeg(a) ELSE a

\* shown is total / count rounded to cents: shown x count is within half a
\* cent x count of total
IsQuotientInCents(shown, total, count) ==
    /\ shown = NumRound2(shown)
    /\ NumLeq(NumAbs(NumSub(NumTimesNat(shown, 200 * count),
                             NumTimesNat(total, 200))),
              NumInt(count))

\* C25: for a valid profile the report gives as cost per employee the
\* total divided by employees and as cost per account the total divided by
\* accounts_count, monthly from total_monthly and annual from total_annual,
\* each rounded to cents: a figure times its divisor is the total to within
\* half a cent per head.
C25_PerHeadIsTotalOverCount ==
    (ValidProfile(org_profile) /\ Returned) =>
        LET metrics == report[1].business_metrics
            t == totals[1]
        IN  /\ IsQuotientInCents(metrics.cost_per_employee.monthly,
                                 t.total_monthly, org_profile.employees)
            /\ IsQuotientInCents(metrics.cost_per_employee.annual,
                                 t.total_annual, org_profile.employees)
            /\ IsQuotientInCents(metrics.cost_per_account.monthly,
                                 t.total_monthly, org_profile.accounts_count)
            /\ IsQuotientInCents(metrics.cost_per_account.annual,
                                 t.total_annual, org_profile.accounts_count)

\* a report for 21 accounts and 500 employees, where neither division
\* comes out even and the two figures differ
C25_Witness ==
    /\ Returned
    /\ ValidProfile(org_profile)
    /\ org_profile.accounts_count = 21
    /\ org_profile.employees = DefaultEmployees
    /\ NumTimesNat(report[1].business_metrics.cost_per_account.monthly, 21)
           # totals[1].total_monthly
    /\ NumLess(report[1].business_metrics.cost_per_employee.annual,
               report[1].business_metrics.cost_per_account.annual)

\* ------------------------------------------------------------------ C26

\* the keys of the returned mapping
ReportSections ==
    {"organization_profile", "cost_analysis", "cost_breakdown",
     "business_metrics", "recommendations", "risk_analysis"}

\* C26: for a valid profile the report has the sections
\* organization_profile, cost_breakdown, business_metrics, recommendations
\* and risk_analysis (and cost_analysis), cost_breakdown has services and
\* totals, and the keys at every level are the same whatever the values:
\* the profile with all its fields, one entry with the same keys for each
\* of the eight services, the totals, the two figures per employee and per
\* account, and the risk level with the list of factors, empty or not.
C26_ReportSectionsAlwaysThere ==
    (ValidProfile(org_profile) /\ Returned) =>
        LET r == report[1]
        IN  /\ DOMAIN r = ReportSections
            /\ DOMAIN r.organization_profile = DOMAIN org_profile
            /\ DOMAIN r.cost_breakdown = {"services", "totals"}
            /\ Len(r.cost_breakdown.services) = 8
            /\ \A k \in 1 .. 8 :
                   DOMAIN r.cost_breakdown.services[k]
                       = {"name", "monthly_cost", "annual_cost",
                          "optimization_potential_pct", "cost_tier"}
            /\ DOMAIN r.cost_breakdown.totals
                   = {"monthly_cost", "annual_cost", "optimized_monthly",
                      "optimized_annual", "potential_savings"}
            /\ DOMAIN r.business_metrics
                   = {"cost_per_employee", "cost_per_account"}
            /\ DOMAIN r.business_metrics.cost_per_employee = {"monthly", "annual"}
            /\ DOMAIN r.business_metrics.cost_per_account = {"monthly", "annual"}
            /\ DOMAIN r.recommendations = 1 .. Len(r.recommendations)
            /\ DOMAIN r.risk_analysis = {"risk_level", "risk_factors"}

\* a report for a valid profile with no compliance framework, no data and
\* no risk factor: empty lists and zero contributions
C26_Witness ==
    /\ ValidProfile(org_profile)
    /\ Returned
    /\ org_profile.compliance_requirements = <<>>
    /\ org_profile.expected_data_gb_monthly = 0
    /\ report[1].risk_analysis.risk_factors = <<>>
    /\ report[1].cost_breakdown.services[1].optimization_potential_pct = 0

\* ------------------------------------------------------------------ C27

RECURSIVE SumSavings(_)
\* the estimated savings of all entries of the list together
SumSavings(recs) ==
    IF recs = <<>> THEN NumZero
    ELSE NumAdd(recs[1].estimated_savings_annual, SumSavings(Tail(recs)))

\* the hundredths of total_annual the rules that fire for the profile
\* promise together
SharesPromised(p) ==
    15 + 12 + (IF p.accounts_count > 20 THEN 8 ELSE 0)
       + (IF NamesPci(p) THEN 5 ELSE 0)

NoCalculator ==
    /\ org_profile \in {p \in OrganizationProfile :
                           /\ p.accounts_count = DefaultAccounts
                           /\ p.employees = DefaultEmployees
                           /\ p.regions = <<"us-east-1">>
                           /\ p.compliance_requirements = <<>>
                           /\ p.expected_data_gb_monthly = DefaultDataGb
                           /\ p.development_accounts_ratio = DefaultDevRatioPct}
    /\ pricing = AWSPricing
    /\ pc = "none"
    /\ services = <<>>
    /\ totals = <<>>
    /\ report = <<>>
    /\ error = "none"
    /\ previous = <<>>

\* parser.parse_args(): text or json, with or without --export
InitHealth ==
    /\ hc_pc = "start"
    /\ output \in {"text", "json"}
    /\ export \in BOOLEAN
    /\ next_check = 0
    /\ results = <<>>
    /\ history = <<>>
    /\ unhealthy = 0
    /\ runs = 0
    /\ summary = <<>>
    /\ returned = -1
    /\ exit_code = -1
    /\ stderr = <<>>
    /\ NoCalculator
    /\ NoReporter

\* an exception reached "except Exception" of main: sys.exit(2)
ExitOnError ==
    /\ hc_pc' = "exited"
    /\ exit_code' = 2
    /\ stderr' = Append(stderr, "Error running health checks")

\* LandingZoneHealthCheck(profile, region): the session or a client may
\* raise (no such profile, no credentials)
Construct ==
    /\ hc_pc = "start"
    /\ \/ /\ hc_pc' = "checks"
          /\ next_check' = 1
          /\ UNCHANGED <<exit_code, stderr>>
       \/ /\ ExitOnError
          /\ UNCHANGED next_check
    /\ UNCHANGED <<output, export, results, history, unhealthy, runs, summary,
                   returned, calculator_vars,
                   reporter_vars>>

\* the check found its service well: it appended, and only PASS
AllPass(outcome) ==
    /\ outcome.appended # <<>>
    /\ ~outcome.raised
    /\ \A j \in 1 .. Len(outcome.appended) : outcome.appended[j].status = "PASS"

\* MakeCheck with an exception of a check let through: run_all_checks is
\* left, and main exits on the error
MakeCheckUnprotected(k, outcome) ==
    /\ hc_pc = "checks"
    /\ next_check = k
    /\ AllPass(outcome) \/ unhealthy < MaxUnhealthy
    /\ unhealthy' = IF AllPass(outcome) THEN unhealthy ELSE unhealthy + 1
    /\ IF outcome.raised
       THEN /\ ExitOnError
            /\ UNCHANGED <<results, history, next_check, runs>>
       ELSE /\ results' = results \o outcome.appended
            /\ history' = Append(history,
                                 [check |-> k, raised |-> outcome.raised,
                                  first |-> Len(results) + 1,
                                  last |-> Len(results) + Len(outcome.appended)])
            /\ IF k < 9
               THEN /\ next_check' = k + 1
                    /\ UNCHANGED <<hc_pc, runs>>
               ELSE /\ next_check' = 0
                    /\ hc_pc' = "output"
                    /\ runs' = runs + 1
            /\ UNCHANGED <<exit_code, stderr>>
    /\ UNCHANGED <<output, export, summary, returned, calculator_vars,
                   reporter_vars>>

\* the k-th call of run_all_checks: the method appends what it found and
\* returns; after the ninth, run_all_checks returns self.results
MakeCheck(k, outcome) ==
    /\ hc_pc = "checks"
    /\ next_check = k
    /\ AllPass(outcome) \/ unhealthy < MaxUnhealthy
    /\ unhealthy' = IF AllPass(outcome) THEN unhealthy ELSE unhealthy + 1
    /\ results' = results \o outcome.appended
    /\ history' = Append(history,
                         [check |-> k, raised |-> outcome.raised,
                          first |-> Len(results) + 1,
                          last |-> Len(results) + Len(outcome.appended)])
    /\ IF k < 9
       THEN /\ next_check' = k + 1
            /\ UNCHANGED <<hc_pc, runs>>
       ELSE /\ next_check' = 0
            /\ hc_pc' = "output"
            /\ runs' = runs + 1
    /\ UNCHANGED <<output, export, summary, returned, exit_code, stderr,
                   calculator_vars, reporter_vars>>

CheckOrganizations ==
    \E a \in OrganizationsAnswers : MakeCheck(1, check_organizations(a))
CheckGuardDuty == \E a \in GuardDutyAnswers : MakeCheck(2, check_guardduty(a))
CheckSecurityHub ==
    \E a \in SecurityHubAnswers : MakeCheck(3, check_security_hub(a))
CheckConfig == \E a \in ConfigAnswers : MakeCheck(4, check_config(a))
CheckCloudTrail == \E a \in CloudTrailAnswers : MakeCheck(5, check_cloudtrail(a))
CheckTransitGateway ==
    \E a \in TransitGatewayAnswers : MakeCheck(6, check_transit_gateway(a))
CheckVpcEndpoints ==
    \E a \in VpcEndpointsAnswers : MakeCheck(7, check_vpc_endpoints(a))
CheckCosts == \E a \in CostsAnswers : MakeCheck(8, check_costs(a))
CheckBackups == \E a \in BackupsAnswers : MakeCheck(9, check_backups(a))

\* run_all_checks is called once more on the same checker
RunAllChecksAgain ==
    /\ hc_pc = "output"
    /\ runs < MaxCalls
    /\ hc_pc' = "checks"
    /\ next_check' = 1
    /\ UNCHANGED <<output, export, results, history, unhealthy, runs, summary,
                   returned, exit_code, stderr, calculator_vars,
                   reporter_vars>>

\* sum(1 for r in self.results if r.status == status)
CountStatus(rs, status) ==
    Cardinality({j \in 1 .. Len(rs) : rs[j].status = status})

\* the overall health with warnings looked at first
OverallHealthWarningsFirst(failed, warnings) ==
    IF warnings > 0 THEN 1 ELSE IF failed > 0 THEN 2 ELSE 0

\* the overall health print_results returns
OverallHealth(failed, warnings) ==
    IF failed > 0 THEN 2 ELSE IF warnings > 0 THEN 1 ELSE 0

\* exit_code = checker.print_results(), text output
PrintResults ==
    /\ hc_pc = "output"
    /\ output = "text"
    /\ summary' = [passed |-> CountStatus(results, "PASS"),
                   warnings |-> CountStatus(results, "WARN"),
                   failed |-> CountStatus(results, "FAIL")]
    /\ returned' = OverallHealth(CountStatus(results, "FAIL"),
                                 CountStatus(results, "WARN"))
    /\ hc_pc' = "printed"
    /\ UNCHANGED <<output, export, next_check, results, history, unhealthy,
                   runs, exit_code, stderr, calculator_vars,
                   reporter_vars>>

\* checker.export_json(args.export): with a file name the file is opened
\* for writing, which may raise; in json output main then returns
ExportJson ==
    /\ \/ hc_pc = "output" /\ output = "json"
       \/ hc_pc = "printed" /\ export
    /\ summary' = [passed |-> CountStatus(results, "PASS"),
                   warnings |-> CountStatus(results, "WARN"),
                   failed |-> CountStatus(results, "FAIL")]
    /\ \/ /\ export
          /\ ExitOnError
       \/ IF output = "json"
          THEN /\ hc_pc' = "exited"
               /\ exit_code' = 0
               /\ UNCHANGED stderr
          ELSE /\ hc_pc' = "exported"
               /\ UNCHANGED <<exit_code, stderr>>
    /\ UNCHANGED <<output, export, next_check, results, history, unhealthy,
                   runs, returned, calculator_vars,
                   reporter_vars>>

\* sys.exit(exit_code), text output
SysExit ==
    /\ \/ hc_pc = "printed" /\ ~export
       \/ hc_pc = "exported"
    /\ hc_pc' = "exited"
    /\ exit_code' = returned
    /\ UNCHANGED <<output, export, next_check, results, history, unhealthy,
                   runs, summary, returned, stderr, calculator_vars,
                   reporter_vars>>

NextHealth ==
    \/ Construct
    \/ CheckOrganizations
    \/ CheckGuardDuty
    \/ CheckSecurityHub
    \/ CheckConfig
    \/ CheckCloudTrail
    \/ CheckTransitGateway
    \/ CheckVpcEndpoints
    \/ CheckCosts
    \/ CheckBackups
    \/ RunAllChecksAgain
    \/ PrintResults
    \/ ExportJson
    \/ SysExit

SpecHealth == InitHealth /\ [][NextHealth]_vars

\* ------------------------------------------------------------------- C28

\* the service a check names in the FAIL of its "except Exception"
CheckService ==
    <<"AWS Organizations", "GuardDuty", "Security Hub", "AWS Config",
      "CloudTrail", "Transit Gateway", "VPC Endpoints", "Cost Management",
      "AWS Backup">>

\* the results the i-th check made appended
AppendedBy(i) == SubSeq(results, history[i].first, history[i].last)

\* the i-th check made recorded a FAIL for its service
RecordedFail(i) ==
    \E j \in history[i].first .. history[i].last :
        /\ results[j].status = "FAIL"
        /\ results[j].service = CheckService[history[i].check]

\* the checks made so far are the nine in their order, run after run, and
\* each appended to what was there
ChecksInOrder ==
    /\ \A i \in 1 .. Len(history) :
           /\ history[i].check = ((i - 1) % 9) + 1
           /\ history[i].first = (IF i = 1 THEN 1 ELSE history[i - 1].last + 1)
           /\ history[i].last >= history[i].first - 1
    /\ Len(results) = (IF history = <<>> THEN 0 ELSE history[Len(history)].last)
    /\ Len(history) = (IF hc_pc = "checks"
                       THEN 9 * runs + next_check - 1 ELSE 9 * runs)

\* a check in which a call raised recorded a FAIL for its service
C28_EveryExceptionRecordsFail ==
    \A i \in 1 .. Len(history) : history[i].raised => RecordedFail(i)

\* results before a step are the beginning of results after it
ResultsOnlyGrow ==
    /\ Len(results') >= Len(results)
    /\ SubSeq(results', 1, Len(results)) = results

\* C28: an exception inside a check never leaves the check, so run_all_checks
\* makes all nine checks in the fixed order whatever raised; the check in
\* which a call raised recorded a FAIL for its service as its last result,
\* except check_costs, which records nothing for an exception of
\* get_anomalies and keeps what it recorded for the cost; results only
\* grows, within a run and from one run_all_checks to the next.
C28_ChecksNeverStopTheRun ==
    /\ [](/\ ChecksInOrder
          /\ \A i \in 1 .. Len(history) :
                history[i].raised =>
                    \/ /\ RecordedFail(i)
                       /\ results[history[i].last].status = "FAIL"
                    \/ /\ history[i].check = 8
                       /\ Len(AppendedBy(i)) <= 1
                       /\ \A j \in history[i].first .. history[i].last :
                              /\ results[j].service = "Cost Management"
                              /\ results[j].status \in {"PASS", "WARN"})
    /\ [][ResultsOnlyGrow]_vars

\* a second run_all_checks has ended on a checker in whose first run
\* get_anomalies raised after the cost of yesterday was recorded
C28_Witness ==
    /\ runs = 2
    /\ hc_pc = "output"
    /\ Len(history) = 18
    /\ Len(results) > history[9].last
    /\ history[8].raised
    /\ ~RecordedFail(8)
    /\ Len(AppendedBy(8)) = 1

\* ------------------------------------------------------------------- C29

\* the exit status the worst status among the results stands for
WorstStatusCode ==
    IF \E j \in 1 .. Len(results) : results[j].status = "FAIL" THEN 2
    ELSE IF \E j \in 1 .. Len(results) : results[j].status = "WARN" THEN 1
    ELSE 0

\* in text output the exit status is the one of the worst status recorded
C29_ExitCodeIsWorstStatus ==
    (hc_pc = "exited" /\ output = "text") => exit_code = WorstStatusCode

\* C29: in text output, when no exception reached main, the exit status is
\* the one of the worst status recorded: 2 exactly when a result is FAIL, 1
\* exactly when none is FAIL and one is WARN, 0 exactly when none is FAIL or
\* WARN, which is also what print_results returns for no results at all;
\* when an exception reached main (building the checker, writing the export
\* file) the exit status is 2 whatever was recorded; the three counts of
\* the summary add up to the number of results.
C29_ExitCodeIsWorstStatusUnlessError ==
    /\ OverallHealth(CountStatus(<<>>, "FAIL"), CountStatus(<<>>, "WARN")) = 0
    /\ summary # <<>> =>
           /\ summary.passed + summary.warnings + summary.failed = Len(results)
           /\ summary.failed = 0 <=> WorstStatusCode < 2
           /\ summary.warnings = 0 =>  WorstStatusCode # 1
    /\ returned # -1 => returned = WorstStatusCode
    /\ (hc_pc = "exited" /\ output = "text") =>
           IF stderr = <<>>
           THEN /\ exit_code = WorstStatusCode
                /\ exit_code = returned
           ELSE exit_code = 2

\* a text run has exited with 1: a check warned, none failed
C29_Witness ==
    /\ hc_pc = "exited"
    /\ output = "text"
    /\ stderr = <<>>
    /\ exit_code = 1
    /\ summary.warnings = 1
    /\ summary.failed = 0
    /\ summary.passed >= 9

\* a text run has exited with 2 on an export file that could not be
\* written, with no FAIL among the results
ExitedOnExportError ==
    /\ hc_pc = "exited"
    /\ output = "text"
    /\ stderr # <<>>
    /\ exit_code = 2
    /\ returned = 0
    /\ Len(results) >= 9

\* ------------------------------------------------ compliance-report.py
\* main of compliance-report.py: the reporter is built, generate_report
\* goes through the active accounts and prints the summary, and main exits
\* by what generate_report returned.

\* an entry of response['Accounts']: ACTIVE, not ACTIVE, or ACTIVE with no
\* 'Name' in it
AccountEntries == {"active", "suspended", "nameless"}

ListAccountsAnswers ==
    [raises : BOOLEAN,
     Accounts : UNION {[1 .. n -> AccountEntries] : n \in 0 .. MaxListedAccounts}]

\* the ACTIVE accounts, or none when list_accounts raised
get_all_accounts(a) ==
    IF a.raises THEN <<>>
    ELSE SelectSeq(a.Accounts, LAMBDA entry : entry # "suspended")

\* describe_compliance_by_config_rule: the rules found COMPLIANT and
\* NON_COMPLIANT
ConfigRuleCounts == {<<0, 0>>, <<20, 0>>, <<19, 1>>, <<18, 2>>, <<17, 3>>}

ConfigComplianceAnswers == [raises : BOOLEAN, rules : ConfigRuleCounts]

\* the score is compliant / (compliant + non_compliant) * 100, a whole
\* number of percent for every answer of ConfigRuleCounts
check_config_compliance(a) ==
    IF a.raises
    THEN [compliant |-> 0, non_compliant |-> 0, total |-> 0, score |-> 0]
    ELSE LET compliant == a.rules[1]
             non_compliant == a.rules[2]
         IN  [compliant |-> compliant,
              non_compliant |-> non_compliant,
              total |-> compliant + non_compliant,
              score |-> IF compliant + non_compliant > 0
                        THEN (compliant * 100) \div (compliant + non_compliant)
                        ELSE 0]

\* get_findings: the findings labelled CRITICAL and HIGH among the answer
SecurityHubFindingsAnswers ==
    [raises : BOOLEAN, CRITICAL : {0, 1}, HIGH : {0, 2}]

\* the counts by severity; a severity that is not in the mapping counts 0,
\* and the mapping is empty when get_findings raised
check_security_hub_findings(a) ==
    IF a.raises THEN [CRITICAL |-> 0, HIGH |-> 0]
    ELSE [CRITICAL |-> a.CRITICAL, HIGH |-> a.HIGH]

\* avg_score = total_score / len(accounts) if accounts else 0, kept as the
\* fraction it is
AverageScore(total, count) ==
    IF count > 0 THEN [total |-> total, over |-> count]
    ELSE [total |-> 0, over |-> 1]

\* avg_score >= percent
ScoreAtLeast(avg_score, percent) == avg_score.total >= percent * avg_score.over

\* the status line of the summary
ComplianceStatus(avg_score, critical) ==
    IF ScoreAtLeast(avg_score, 95) /\ critical = 0 THEN "EXCELLENT"
    ELSE IF ScoreAtLeast(avg_score, 90) /\ critical = 0 THEN "GOOD"
    ELSE IF critical > 0 THEN "ACTION REQUIRED"
    ELSE "NEEDS IMPROVEMENT"

\* the exit status by the score alone
ReporterExitCodeByScore(r) ==
    IF ~ScoreAtLeast(r.average_score, 90) THEN 1 ELSE 0

\* the exit status main chooses from what generate_report returned
ReporterExitCode(r) ==
    IF r.critical_issues > 0 THEN 1
    ELSE IF ~ScoreAtLeast(r.average_score, 90) THEN 1
    ELSE 0

InitReporter ==
    /\ cr_pc = "start"
    /\ accounts = <<>>
    /\ listing = "none"
    /\ analyzed = 0
    /\ total_score = 0
    /\ critical_issues = 0
    /\ high_issues = 0
    /\ cr_status = ""
    /\ cr_results = <<>>
    /\ fatal = FALSE
    /\ cr_exit = -1
    /\ NoCalculator
    /\ NoHealthCheck

\* an exception reached "except Exception" of main: sys.exit(2)
FatalError ==
    /\ cr_pc' = "exited"
    /\ fatal' = TRUE
    /\ cr_exit' = 2

\* ComplianceReporter(): a boto3.client may raise (no region, no
\* credentials file)
ConstructReporter ==
    /\ cr_pc = "start"
    /\ \/ /\ cr_pc' = "constructed"
          /\ UNCHANGED <<fatal, cr_exit>>
       \/ FatalError
    /\ UNCHANGED <<accounts, listing, analyzed, total_score, critical_issues,
                   high_issues, cr_status, cr_results, calculator_vars,
                   health_vars>>

\* generate_report up to the loop
GetAllAccounts ==
    /\ cr_pc = "constructed"
    /\ \E a \in ListAccountsAnswers :
           /\ accounts' = get_all_accounts(a)
           /\ listing' = IF a.raises THEN "raised" ELSE "answered"
    /\ analyzed' = 0
    /\ total_score' = 0
    /\ critical_issues' = 0
    /\ high_issues' = 0
    /\ cr_pc' = "accounts"
    /\ UNCHANGED <<cr_status, cr_results, fatal, cr_exit, calculator_vars,
                   health_vars>>

\* one turn of the loop over the accounts: account['Name'] raises KeyError
\* for an entry without it; the GuardDuty status is printed and kept
\* nowhere
AnalyzeAccount ==
    /\ cr_pc = "accounts"
    /\ analyzed < Len(accounts)
    /\ IF accounts[analyzed + 1] = "nameless"
       THEN /\ FatalError
            /\ UNCHANGED <<analyzed, total_score, critical_issues, high_issues>>
       ELSE /\ \E c \in ConfigComplianceAnswers, h \in SecurityHubFindingsAnswers :
                   LET config_results == check_config_compliance(c)
                       sh_findings == check_security_hub_findings(h)
                   IN  /\ total_score' = total_score + config_results.score
                       /\ critical_issues' = critical_issues + sh_findings.CRITICAL
                       /\ high_issues' = high_issues + sh_findings.HIGH
            /\ analyzed' = analyzed + 1
            /\ UNCHANGED <<cr_pc, fatal, cr_exit>>
    /\ UNCHANGED <<accounts, listing, cr_status, cr_results, calculator_vars,
                   health_vars>>

\* the summary of generate_report and its return
Summarize ==
    /\ cr_pc = "accounts"
    /\ analyzed = Len(accounts)
    /\ LET avg_score == AverageScore(total_score, Len(accounts))
       IN  /\ cr_status' = ComplianceStatus(avg_score, critical_issues)
           /\ cr_results' = <<[average_score |-> avg_score,
                               critical_issues |-> critical_issues,
                               high_issues |-> high_issues,
                               accounts_analyzed |-> Len(accounts)]>>
    /\ cr_pc' = "returned"
    /\ UNCHANGED <<accounts, listing, analyzed, total_score, critical_issues,
                   high_issues, fatal, cr_exit, calculator_vars, health_vars>>

\* sys.exit of main by the results
ExitReporter ==
    /\ cr_pc = "returned"
    /\ cr_exit' = ReporterExitCode(cr_results[1])
    /\ cr_pc' = "exited"
    /\ UNCHANGED <<accounts, listing, analyzed, total_score, critical_issues,
                   high_issues, cr_status, cr_results, fatal, calculator_vars,
                   health_vars>>

NextReporter ==
    \/ ConstructReporter
    \/ GetAllAccounts
    \/ AnalyzeAccount
    \/ Summarize
    \/ ExitReporter

SpecReporter == InitReporter /\ [][NextReporter]_vars

\* ------------------------------------------------------------------- C30

\* the average score of the accounts gone through is at least 90
AverageAtLeastNinety ==
    /\ Len(accounts) > 0
    /\ total_score >= 90 * Len(accounts)

\* C30: the exit status of the compliance reporter agrees with the status
\* it printed: 0 exactly when there is no critical issue and the average
\* score is at least 90, the status then being EXCELLENT or GOOD; 1 when
\* there is a critical issue or the average is below 90, the status then
\* being ACTION REQUIRED or NEEDS IMPROVEMENT; 2 only when an exception
\* reached main; with no active account, also when listing them raised,
\* the average is 0 and the exit status 1.
C30_ExitCodeAgreesWithStatus ==
    cr_pc = "exited" =>
        /\ cr_exit \in {0, 1, 2}
        /\ cr_exit = 2 <=> fatal
        /\ fatal => cr_results = <<>> /\ cr_status = ""
        /\ ~fatal =>
               /\ cr_exit = 0 <=> (critical_issues = 0 /\ AverageAtLeastNinety)
               /\ cr_exit = 0 <=> cr_status \in {"EXCELLENT", "GOOD"}
               /\ cr_exit = 1 <=>
                      cr_status \in {"ACTION REQUIRED", "NEEDS IMPROVEMENT"}
               /\ cr_status = "ACTION REQUIRED" <=> critical_issues > 0
               /\ cr_results[1].accounts_analyzed = Len(accounts)
               /\ accounts = <<>> =>
                      /\ cr_results[1].average_score = [total |-> 0, over |-> 1]
                      /\ cr_status = "NEEDS IMPROVEMENT"
                      /\ cr_exit = 1

\* the reporter has exited with 1 after list_accounts raised: no account,
\* an average of 0 and NEEDS IMPROVEMENT
C30_Witness ==
    /\ cr_pc = "exited"
    /\ listing = "raised"
    /\ accounts = <<>>
    /\ ~fatal
    /\ cr_results[1].average_score.total = 0
    /\ cr_status = "NEEDS IMPROVEMENT"
    /\ cr_exit = 1

\* the reporter has exited with 0 on two accounts that average exactly 90
ExitedGoodAtNinety ==
    /\ cr_pc = "exited"
    /\ Len(accounts) = 2
    /\ total_score = 180
    /\ cr_status = "GOOD"
    /\ cr_exit = 0

====
